---- MODULE Spec2Model ----
(***************************************************************************)
(* A model of gammapy's table PSF classes (gammapy/irf/psf/table.py):      *)
(* TablePSF, EnergyDependentTablePSF and PSF3D.                            *)
(*                                                                         *)
(* Numbers.  numpy works in float64; the model works in exact rationals    *)
(* <<num, den>> in lowest terms, den > 0, so equality of values is         *)
(* equality of tuples.  A division by zero gives the one non-finite value  *)
(* NaN == <<0, 0>>, which every later operation propagates.                *)
(* Energies are held as their decimal logarithm, so that log-spaced grids, *)
(* log interpolation and unit changes (MeV, GeV, TeV) stay rational.       *)
(* The integrand factor 2*pi is absorbed in the unit of the PSF values.    *)
(***************************************************************************)
EXTENDS Integers, Sequences, FiniteSets, TLC

\* ------------------------------------------------------------- bounds
\* Largest number of bins of an axis drawn as an input.
MaxBins == 3
\* Largest PSF value drawn as an input.
MaxVal == 1

\* ---------------------------------------------------------- rationals
RECURSIVE GCD(_, _)
GCD(a, b) == IF b = 0 THEN a ELSE GCD(b, a % b)

IAbs(a) == IF a < 0 THEN -a ELSE a

NaN == <<0, 0>>

IsFinite(x) == x[2] # 0

\* n/d in lowest terms with a positive denominator; d = 0 gives NaN.
Rat(n, d) ==
    IF d = 0 THEN NaN
    ELSE LET g == GCD(IAbs(n), IAbs(d))
             s == IF d < 0 THEN -1 ELSE 1
         IN  <<(s * n) \div g, (s * d) \div g>>

R(n) == <<n, 1>>

\* Sums, products and comparisons cancel common factors before they multiply,
\* which keeps the intermediate integers small.
RAdd(x, y) ==
    IF ~IsFinite(x) \/ ~IsFinite(y) THEN NaN
    ELSE LET g == GCD(x[2], y[2])
         IN  Rat(x[1] * (y[2] \div g) + y[1] * (x[2] \div g), (x[2] \div g) * y[2])

RNeg(x) == <<-x[1], x[2]>>

RSub(x, y) == RAdd(x, RNeg(y))

RMul(x, y) ==
    IF ~IsFinite(x) \/ ~IsFinite(y) THEN NaN
    ELSE LET g1 == GCD(IAbs(x[1]), y[2])
             g2 == GCD(IAbs(y[1]), x[2])
         IN  Rat((x[1] \div g1) * (y[1] \div g2), (x[2] \div g2) * (y[2] \div g1))

\* IEEE division: a zero divisor gives a non-finite value, never an error.
RDiv(x, y) ==
    IF ~IsFinite(x) \/ ~IsFinite(y) \/ y[1] = 0 THEN NaN
    ELSE RMul(x, IF y[1] < 0 THEN <<-y[2], -y[1]>> ELSE <<y[2], y[1]>>)

RAbs(x) == <<IAbs(x[1]), x[2]>>

\* Comparisons with NaN are false, as in IEEE arithmetic.
RLt(x, y) ==
    /\ IsFinite(x) /\ IsFinite(y)
    /\ LET g == GCD(x[2], y[2]) IN x[1] * (y[2] \div g) < y[1] * (x[2] \div g)

RLe(x, y) ==
    /\ IsFinite(x) /\ IsFinite(y)
    /\ LET g == GCD(x[2], y[2]) IN x[1] * (y[2] \div g) <= y[1] * (x[2] \div g)

RMin(x, y) == IF RLt(y, x) THEN y ELSE x

RMax(x, y) == IF RLt(x, y) THEN y ELSE x

RECURSIVE RSum(_)
RSum(s) == IF s = <<>> THEN R(0) ELSE RAdd(RSum(SubSeq(s, 1, Len(s) - 1)), s[Len(s)])

\* ------------------------------------------------------ numpy arrays
\* An array is [shape |-> <<n1, ..., nk>>, at |-> [index tuple -> value]],
\* indices counted from 1.  A 0-d array has shape <<>> and the one index <<>>.
Reverse(s) == [i \in 1..Len(s) |-> s[Len(s) + 1 - i]]

RECURSIVE Indices(_)
Indices(shape) ==
    IF shape = <<>> THEN {<<>>}
    ELSE {Append(p, i) : p \in Indices(SubSeq(shape, 1, Len(shape) - 1)),
                         i \in 1..shape[Len(shape)]}

\* A function evaluated once, at every point of its domain (TLC would otherwise
\* evaluate [x \in S |-> e] again at every application).
Memo(f) == f @@ <<>>

Arr(shape, f(_)) == [shape |-> shape, at |-> Memo([ix \in Indices(shape) |-> f(ix)])]

\* A 1-d array from a sequence, and back.
Vec(s) == Arr(<<Len(s)>>, LAMBDA ix : s[ix[1]])

Seq1(a) == Memo([i \in 1..a.shape[1] |-> a.at[<<i>>]])

ndim(a) == Len(a.shape)

\* ndarray.T / ndarray.transpose(): the axes in reverse order.
transpose(a) == Arr(Reverse(a.shape), LAMBDA ix : a.at[Reverse(ix)])

\* The positions of the axes that squeeze() keeps, in order.
RECURSIVE KeptAxes(_)
KeptAxes(shape) ==
    IF shape = <<>> THEN <<>>
    ELSE LET rest == KeptAxes(SubSeq(shape, 1, Len(shape) - 1))
         IN  IF shape[Len(shape)] = 1 THEN rest ELSE Append(rest, Len(shape))

\* ndarray.squeeze(): every axis of length 1 is removed.
squeeze(a) ==
    LET keep == KeptAxes(a.shape)
        full(ix) == [d \in 1..Len(a.shape) |->
                        IF \E k \in 1..Len(keep) : keep[k] = d
                        THEN ix[CHOOSE k \in 1..Len(keep) : keep[k] = d]
                        ELSE 1]
    IN  Arr([k \in 1..Len(keep) |-> a.shape[keep[k]]], LAMBDA ix : a.at[full(ix)])

\* a[np.newaxis]: a new leading axis of length 1.
newaxis(a) == Arr(<<1>> \o a.shape, LAMBDA ix : a.at[SubSeq(ix, 2, Len(ix))])

\* a[0]: the first entry along the leading axis.
first(a) == Arr(SubSeq(a.shape, 2, Len(a.shape)), LAMBDA ix : a.at[<<1>> \o ix])

\* Elementwise map.
AMap(a, f(_)) == Arr(a.shape, LAMBDA ix : f(a.at[ix]))

\* np.argmin over a sequence: the first minimum; a NaN counts as the minimum.
argmin(s) ==
    IF \E i \in 1..Len(s) : ~IsFinite(s[i])
    THEN CHOOSE i \in 1..Len(s) : ~IsFinite(s[i]) /\ \A j \in 1..(i - 1) : IsFinite(s[j])
    ELSE CHOOSE i \in 1..Len(s) :
            /\ \A j \in 1..Len(s) : RLe(s[i], s[j])
            /\ \A j \in 1..(i - 1) : RLt(s[i], s[j])

\* np.linspace(start, stop, num): num points, the end points included.
linspace(start, stop, num) ==
    Memo([k \in 1..num |->
            IF num = 1 THEN start
            ELSE RAdd(start, RMul(RSub(stop, start), Rat(k - 1, num - 1)))])

\* ---------------------------------------------------- call results
NONE == [cls |-> "None"]

\* What a call gives back: the value it returns, or the exception it raises.
Ok(v) == [err |-> "", val |-> v]

Raise(e) == [err |-> e, val |-> NONE]

\* ----------------------------------------------------------- units
\* Angles convert by a factor, energies (decimal logarithms) by an offset.
ArcminPer(unit) == IF unit = "deg" THEN 60 ELSE 1

AngleTo(x, from, to) == RMul(x, Rat(ArcminPer(from), ArcminPer(to)))

LgMeV(unit) == IF unit = "TeV" THEN 6 ELSE IF unit = "GeV" THEN 3 ELSE 0

EnergyTo(lg, from, to) == RAdd(lg, R(LgMeV(from) - LgMeV(to)))

\* Exposure: 1 cm2 min = 60 cm2 s.
Cm2sPer(unit) == IF unit = "cm2 min" THEN 60 ELSE 1

ExposureTo(x, from, to) == RMul(x, Rat(Cm2sPer(from), Cm2sPer(to)))

\* A coordinate of an axis in another unit; energy axes hold logarithms.
CoordTo(x, name, from, to) ==
    IF name = "energy_true" THEN EnergyTo(x, from, to) ELSE AngleTo(x, from, to)

\* ------------------------------------------------------------ MapAxis
\* An axis is [name, unit, interp, node_type, edges, center]; nbin = Len(center).
Mid(a, b) == RMul(RAdd(a, b), Rat(1, 2))

\* MapAxis.from_edges: the centers are the bin midpoints (in the scale of the
\* axis: for a log axis the midpoint of the logarithms).
MapAxis_from_edges(edges, name, unit, interp) ==
    [name |-> name, unit |-> unit, interp |-> interp, node_type |-> "edges",
     edges |-> edges,
     center |-> Memo([i \in 1..(Len(edges) - 1) |-> Mid(edges[i], edges[i + 1])])]

\* MapAxis.from_nodes: the nodes are the centers; the edges lie half way between
\* neighbouring nodes and the two outer edges continue the outer spacing.
MapAxis_from_nodes(nodes, name, unit, interp) ==
    LET n == Len(nodes)
        edge(i) == IF i = 1 THEN RSub(nodes[1], RMul(RSub(nodes[2], nodes[1]), Rat(1, 2)))
                   ELSE IF i = n + 1
                        THEN RAdd(nodes[n], RMul(RSub(nodes[n], nodes[n - 1]), Rat(1, 2)))
                        ELSE Mid(nodes[i - 1], nodes[i])
    IN  [name |-> name, unit |-> unit, interp |-> interp, node_type |-> "center",
         edges |-> [i \in 1..(n + 1) |-> edge(i)],
         center |-> nodes]

nbin(axis) == Len(axis.center)

\* MapAxis.upsample(factor): every bin is split into `factor` equal bins.
MapAxis_upsample(axis, factor) ==
    LET n == nbin(axis)
        e(k) == LET i == ((k - 1) \div factor) + 1
                    m == (k - 1) % factor
                IN  IF k = n * factor + 1 THEN axis.edges[n + 1]
                    ELSE RAdd(axis.edges[i],
                              RMul(RSub(axis.edges[i + 1], axis.edges[i]), Rat(m, factor)))
    IN  MapAxis_from_edges(Memo([k \in 1..(n * factor + 1) |-> e(k)]),
                           axis.name, axis.unit, axis.interp)

\* MapAxes.assert_names
assert_names(axes, names) ==
    /\ Len(axes) = Len(names)
    /\ \A i \in 1..Len(axes) : axes[i].name = names[i]

\* -------------------------------------------------------- NDDataArray
\* NDDataArray(axes, data): the data setter checks the number of dimensions and
\* then the length of every dimension against the axes, in order.
NDDataArray_init(axes, data) ==
    IF ndim(data) # Len(axes) THEN Raise("ValueError")
    ELSE IF \E i \in 1..Len(axes) : nbin(axes[i]) # data.shape[i]
         THEN Raise("ValueError")
         ELSE Ok([axes |-> axes, data |-> data])

\* Linear interpolation of the sequence ys, given at the increasing points xs,
\* at x; outside the points the nearest end value is used (edge clamping).
RECURSIVE Interp1(_, _, _)
Interp1(xs, ys, x) ==
    IF Len(xs) = 1 \/ RLe(x, xs[1]) THEN ys[1]
    ELSE IF RLe(x, xs[2])
         THEN RAdd(ys[1], RMul(RSub(ys[2], ys[1]),
                               RDiv(RSub(x, xs[1]), RSub(xs[2], xs[1]))))
         ELSE Interp1(Tail(xs), Tail(ys), x)

\* The length of the part of the bin [lo, hi] that lies inside [0, r].
Overlap(lo, hi, r) ==
    LET a == RMax(lo, R(0))
        b == RMin(hi, r)
    IN  IF RLt(a, b) THEN RSub(b, a) ELSE R(0)

\* The radial integral of 2 pi r dP/dOmega dr from 0 to r over a rad profile
\* (one value per rad bin): every bin carries center * value per unit radius.
IntegrateProfile(rad_axis, profile, r) ==
    RSum([i \in 1..nbin(rad_axis) |->
            RMul(RMul(rad_axis.center[i], profile[i]),
                 Overlap(rad_axis.edges[i], rad_axis.edges[i + 1], r))])

\* ----------------------------------------------------------- state
\* Where an array lives: the buffer, named after the call that allocated it,
\* and the index prefix of the view into it (<<>> for the whole buffer).
NoBuffer == [buf |-> "", prefix |-> <<>>]

Whole(buf) == [buf |-> buf, prefix |-> <<>>]

\* arr[i - 1]: the view of one row of an array.
RowView(m, i) == [m EXCEPT !.prefix = Append(@, i)]

\* An array the caller holds and no PSF object does.
UserArray == Whole("argument")

IsPrefix(p, s) == Len(p) <= Len(s) /\ SubSeq(s, 1, Len(p)) = p

\* The constructors without the copy: the object keeps the array it was given.
Quantity_to_view(data, owner) == data

\* u.Quantity(data).to("sr^-1") in the constructors: a copy of the array given,
\* in a buffer of the new object's own.
Quantity_to(data, owner) == Whole(owner)

\* Where the data of the object a constructor call returned lives.
Held(r, data, owner) == IF r.err = "" THEN Quantity_to(data, owner) ELSE NoBuffer

\* Object o, whose data lives at `own`, after an in-place division by `integral`
\* of the elements the view `view` shows.
Written(o, own, view, integral) ==
    IF o = NONE \/ own.buf # view.buf
    THEN o
    ELSE [o EXCEPT !.data.at =
             [ix \in DOMAIN @ |-> IF IsPrefix(view.prefix, own.prefix \o ix)
                                  THEN RDiv(@[ix], integral)
                                  ELSE @[ix]]]

\* tpsf, edep, psf3d: the TablePSF, EnergyDependentTablePSF and PSF3D object of
\* the run (NONE before it exists); hdul: the FITS structure last written;
\* call: the last call made, with its arguments and what it gave back;
\* mem: for each object, where the array of its data attribute lives;
\* maker, dataset: the FoVBackgroundMaker and the map dataset of the run.
VARIABLES tpsf, edep, psf3d, hdul, call, mem, maker, dataset

vars == <<tpsf, edep, psf3d, hdul, call, mem, maker, dataset>>

Init ==
    /\ tpsf = NONE
    /\ edep = NONE
    /\ psf3d = NONE
    /\ hdul = NONE
    /\ call = [op |-> "start", pure |-> FALSE]
    /\ mem = [tpsf |-> NoBuffer, edep |-> NoBuffer, psf3d |-> NoBuffer]
    /\ maker = NONE
    /\ dataset = NONE

\* A run makes one constructor call with drawn inputs (Fresh) and derives at
\* most one object of each other class from the object constructed (the guards
\* tpsf = NONE, edep = NONE of the deriving actions).
Fresh == call.op = "start"

\* A pure call (call.pure) changes no object and replaces `call` as a whole, so
\* the states a pure call reaches right after another pure call are those it
\* reaches right after the call before that one.  Pure calls are therefore
\* made only when the last call was not pure: the reachable states are the same.
Settled == ~call.pure

\* The axis of a PSF object with the given name (NDDataArray.axes[name]).
axis_of(psf, name) ==
    psf.axes[CHOOSE i \in 1..Len(psf.axes) : psf.axes[i].name = name]

\* NDDataArray._integrate_rad for axes [rad]: the containment at each rad_max,
\* given in `unit`.
integrate_rad_1d(axes, data, rad_max, unit) ==
    Memo([k \in 1..Len(rad_max) |->
            IntegrateProfile(axes[1], Seq1(data),
                             AngleTo(rad_max[k], unit, axes[1].unit))])

\* ------------------------------------------------------------ TablePSF
TablePSF_init(rad_axis, data) ==
    IF rad_axis.name # "rad" THEN Raise("ValueError")
    ELSE LET nd == NDDataArray_init(<<rad_axis>>, data)
         IN  IF nd.err # "" THEN nd
             ELSE Ok([cls |-> "TablePSF", axes |-> nd.val.axes, data |-> nd.val.data])

\* Mutant of TablePSF_containment: the density at rad_max (data.evaluate) in
\* place of its radial integral.
TablePSF_containment_density(psf, rad_max, unit) ==
    Memo([k \in 1..Len(rad_max) |->
            Interp1(psf.axes[1].center, Seq1(psf.data),
                    AngleTo(rad_max[k], unit, psf.axes[1].unit))])

\* TablePSF.containment(rad_max), rad_max a sequence of angles in `unit`
\* (np.atleast_1d has made it one).
TablePSF_containment(psf, rad_max, unit) ==
    integrate_rad_1d(psf.axes, psf.data, rad_max, unit)

\* The grid of TablePSF.containment_radius: 10 * nbin radii from 0 to the last
\* center, in deg.
TablePSF_rad_max(psf) ==
    LET rad_axis == axis_of(psf, "rad")
    IN  linspace(R(0), AngleTo(rad_axis.center[nbin(rad_axis)], rad_axis.unit, "deg"),
                 10 * nbin(rad_axis))

\* Mutant of fraction_idx: the last of the nearest grid points, not the first.
fraction_idx_last(containment, fraction) ==
    LET d == Memo([j \in 1..Len(containment) |-> RAbs(RSub(containment[j], fraction))])
        n == Len(d)
    IN  n + 1 - argmin(Memo([j \in 1..n |-> d[n + 1 - j]]))

\* The index np.argmin(np.abs(containment - fraction)) picks for one fraction.
fraction_idx(containment, fraction) ==
    argmin(Memo([j \in 1..Len(containment) |-> RAbs(RSub(containment[j], fraction))]))

\* TablePSF.containment_radius(fraction), fraction a sequence; the result is in deg.
TablePSF_containment_radius(psf, fraction) ==
    LET rad_max == TablePSF_rad_max(psf)
        containment == TablePSF_containment(psf, rad_max, "deg")
    IN  [k \in 1..Len(fraction) |-> rad_max[fraction_idx(containment, fraction[k])]]

\* Mutant of TablePSF_integral: the containment at the last center of the rad
\* axis, not at its upper edge.
TablePSF_integral_center(psf) ==
    LET rad_axis == axis_of(psf, "rad")
    IN  TablePSF_containment(psf, <<rad_axis.center[nbin(rad_axis)]>>, rad_axis.unit)[1]

\* The integral TablePSF.normalize divides by: the containment at the upper
\* edge of the rad axis.
TablePSF_integral(psf) ==
    LET rad_axis == axis_of(psf, "rad")
    IN  TablePSF_containment(psf, <<rad_axis.edges[nbin(rad_axis) + 1]>>, rad_axis.unit)[1]

\* TablePSF.normalize(): self.data /= integral, in place.
TablePSF_normalize(psf) ==
    LET integral == TablePSF_integral(psf)
    IN  [psf EXCEPT !.data = AMap(psf.data, LAMBDA x : RDiv(x, integral))]

\* TablePSF.from_shape(shape, width, rad); width is [value, unit], rad is
\* [value |-> sequence, unit].  The values of the two shapes are kept as the
\* expressions the code evaluates: 1 / (pi * width.radian ** 2) for the disk
\* and Gauss2DPDF(sigma=width.radian)(rad.radian) for the Gaussian.
TablePSF_from_shape(shape, width, rad) ==
    LET w == AngleTo(width.value, width.unit, "deg")
        r == Memo([i \in 1..Len(rad.value) |-> AngleTo(rad.value[i], rad.unit, "deg")])
        rad_axis == MapAxis_from_nodes(rad.value, "rad", rad.unit, "lin")
    IN  IF shape = "disk"
        THEN TablePSF_init(rad_axis,
                 Arr(<<Len(r)>>, LAMBDA ix : IF RLt(r[ix[1]], w)
                                             THEN [fn |-> "disk amplitude", width |-> w]
                                             ELSE [fn |-> "0"]))
        ELSE IF shape = "gauss"
             THEN TablePSF_init(rad_axis,
                      Arr(<<Len(r)>>, LAMBDA ix : [fn |-> "Gauss2DPDF", sigma |-> w,
                                                  rad |-> r[ix[1]]]))
             ELSE Raise("ValueError")

\* ---------------------------------------------- EnergyDependentTablePSF
\* The rad profile of (energy, rad) data at one energy, given in the unit of the
\* energy axis: every rad column interpolated over the energy centers.
ProfileAt(axes, data, energy) ==
    Memo([j \in 1..nbin(axes[2]) |->
            Interp1(axes[1].center,
                    Memo([i \in 1..nbin(axes[1]) |-> data.at[<<i, j>>]]),
                    energy)])

\* NDDataArray._interpolate for axes [energy_true, rad] at the points
\* (energy[:, np.newaxis], rad): an array of shape (len(energy), len(rad)).
interpolate_2d(axes, data, energy, eunit, rad, runit) ==
    LET profile == Memo([k \in 1..Len(energy) |->
                           ProfileAt(axes, data, EnergyTo(energy[k], eunit, axes[1].unit))])
    IN  Arr(<<Len(energy), Len(rad)>>,
            LAMBDA ix : Interp1(axes[2].center, profile[ix[1]],
                                AngleTo(rad[ix[2]], runit, axes[2].unit)))

\* NDDataArray._integrate_rad for axes [energy_true, rad] at the points
\* (energy[:, np.newaxis], rad_max): an array of shape (len(energy), len(rad_max)).
integrate_rad_2d(axes, data, energy, eunit, rad_max, runit) ==
    LET profile == Memo([k \in 1..Len(energy) |->
                           ProfileAt(axes, data, EnergyTo(energy[k], eunit, axes[1].unit))])
    IN  Arr(<<Len(energy), Len(rad_max)>>,
            LAMBDA ix : IntegrateProfile(axes[2], profile[ix[1]],
                                         AngleTo(rad_max[ix[2]], runit, axes[2].unit)))

\* EnergyDependentTablePSF(energy_axis_true, rad_axis, exposure, data); exposure
\* is NONE or [value |-> sequence, unit |-> unit].
EnergyDependentTablePSF_init(energy_axis_true, rad_axis, exposure, data) ==
    LET axes == <<energy_axis_true, rad_axis>>
    IN  IF ~assert_names(axes, <<"energy_true", "rad">>) THEN Raise("ValueError")
        ELSE LET nd == NDDataArray_init(axes, data)
             IN  IF nd.err # "" THEN nd
                 ELSE Ok([cls |-> "EnergyDependentTablePSF",
                          axes |-> nd.val.axes,
                          data |-> nd.val.data,
                          exposure |->
                              IF exposure = NONE
                              THEN [i \in 1..nbin(energy_axis_true) |-> R(1)]
                              ELSE [i \in 1..Len(exposure.value) |->
                                      ExposureTo(exposure.value[i], exposure.unit, "cm2 s")]])

\* EnergyDependentTablePSF.evaluate(energy, rad) with energies and radii given
\* as sequences in the given units.
EnergyDependentTablePSF_evaluate(psf, energy, eunit, rad, runit) ==
    interpolate_2d(psf.axes, psf.data, energy, eunit, rad, runit)

\* EnergyDependentTablePSF.containment(energy, rad_max).
EnergyDependentTablePSF_containment(psf, energy, eunit, rad_max, runit) ==
    integrate_rad_2d(psf.axes, psf.data, energy, eunit, rad_max, runit)

\* EnergyDependentTablePSF.containment_radius(energy, fraction): one radius per
\* energy, in deg, on the centers of the rad axis upsampled by 10.
EnergyDependentTablePSF_containment_radius(psf, energy, eunit, fraction) ==
    LET rad_axis == axis_of(psf, "rad")
        rad_max == Memo(MapAxis_upsample(rad_axis, 10).center)
        containment == EnergyDependentTablePSF_containment(psf, energy, eunit,
                                                           rad_max, rad_axis.unit)
        row(i) == Memo([j \in 1..Len(rad_max) |-> containment.at[<<i, j>>]])
    IN  [i \in 1..Len(energy) |->
            AngleTo(rad_max[fraction_idx(row(i), fraction)], rad_axis.unit, "deg")]

\* MapAxis.to_table(format="gtpsf"): the centers of the axis as one column, the
\* rad axis in deg, the energy axis in MeV.
MapAxis_to_table_gtpsf(axis) ==
    [i \in 1..nbin(axis) |->
        CoordTo(axis.center[i], axis.name, axis.unit,
                IF axis.name = "energy_true" THEN "MeV" ELSE "deg")]

\* EnergyDependentTablePSF.to_hdulist(): the THETA table (column Theta, deg) and
\* the PSF table (columns Energy in MeV, Exposure in cm2 s, PSF in sr-1, one row
\* per energy).  A table repeats a column of length 1 over its rows and refuses
\* any other column whose length is not its row count.
EnergyDependentTablePSF_to_hdulist(psf) ==
    LET Energy == MapAxis_to_table_gtpsf(axis_of(psf, "energy_true"))
        rows == Len(Energy)
    IN  IF Len(psf.exposure) \notin {1, rows} \/ psf.data.shape[1] # rows
        THEN Raise("ValueError")
        ELSE Ok([cls |-> "HDUList",
                 THETA |-> [Theta |-> MapAxis_to_table_gtpsf(axis_of(psf, "rad"))],
                 PSF |-> [Energy |-> Energy,
                          Exposure |-> [i \in 1..rows |->
                                          ExposureTo(psf.exposure[IF Len(psf.exposure) = 1
                                                                  THEN 1 ELSE i],
                                                     "cm2 s", "cm2 s")],
                          PSF |-> psf.data]])

\* Mutant of EnergyDependentTablePSF_from_hdulist: the Energy column is taken to
\* be in GeV.
EnergyDependentTablePSF_from_hdulist_GeV(hdu_list) ==
    EnergyDependentTablePSF_init(
        MapAxis_from_nodes(hdu_list.PSF.Energy, "energy_true", "GeV", "log"),
        MapAxis_from_nodes(hdu_list.THETA.Theta, "rad", "deg", "lin"),
        [value |-> hdu_list.PSF.Exposure, unit |-> "cm2 s"],
        hdu_list.PSF.PSF)

\* EnergyDependentTablePSF.from_hdulist(hdu_list): node axes from the Theta
\* column (deg) and the Energy column (MeV, log interpolation).
EnergyDependentTablePSF_from_hdulist(hdu_list) ==
    EnergyDependentTablePSF_init(
        MapAxis_from_nodes(hdu_list.PSF.Energy, "energy_true", "MeV", "log"),
        MapAxis_from_nodes(hdu_list.THETA.Theta, "rad", "deg", "lin"),
        [value |-> hdu_list.PSF.Exposure, unit |-> "cm2 s"],
        hdu_list.PSF.PSF)

\* EnergyDependentTablePSF.table_psf_at_energy(energy): the row [0, :] of
\* evaluate(energy) on the rad axis of the PSF.
EnergyDependentTablePSF_table_psf_at_energy(psf, energy, eunit) ==
    LET rad_axis == axis_of(psf, "rad")
        value == EnergyDependentTablePSF_evaluate(psf, <<energy>>, eunit,
                                                  rad_axis.center, rad_axis.unit)
    IN  TablePSF_init(rad_axis, first(value))

\* 10^k for an integer k.
RECURSIVE Pow10(_)
Pow10(k) == IF k = 0 THEN R(1)
            ELSE IF k > 0 THEN RMul(R(10), Pow10(k - 1))
                 ELSE RDiv(Pow10(k + 1), R(10))

\* A spectral model called at an energy (decimal logarithm lg, in `unit`).
\* "pl2" is PowerLawSpectralModel() up to its amplitude: (E / 1 TeV)^-2, which
\* is rational where 2 * lg is an integer; "const" and "line" are models the
\* caller passes.
SpectralModel(spectrum, lg, unit) ==
    LET x == EnergyTo(lg, unit, "TeV")
    IN  IF spectrum.tag = "pl2" THEN Pow10(-((2 * x[1]) \div x[2]))
        ELSE IF spectrum.tag = "const" THEN spectrum.value
             ELSE RSub(R(4), x)

\* TemplateSpectralModel(energy centers, exposure) called at an energy: the
\* exposure interpolated between the energy centers.
ExposureModel(psf, lg, unit) ==
    LET axis == axis_of(psf, "energy_true")
    IN  Interp1(axis.center, psf.exposure, EnergyTo(lg, unit, axis.unit))

\* MapAxis.from_energy_bounds(e_min, e_max, n_bins).edges: the edges of n_bins
\* log-spaced bins from e_min to e_max.
MapAxis_from_energy_bounds_edges(e_min, e_max, n_bins) ==
    Memo([k \in 1..(n_bins + 1) |->
            RAdd(e_min, RMul(RSub(e_max, e_min), Rat(k - 1, n_bins)))])

\* The energies table_psf_in_energy_range samples.
band_energy(energy_range, n_bins) ==
    MapAxis_from_energy_bounds_edges(energy_range[1], energy_range[2], n_bins)

\* weights = spectrum(energy) * exposure(energy)
band_weights_raw(psf, energy, eunit, spectrum) ==
    Memo([k \in 1..Len(energy) |->
            RMul(SpectralModel(IF spectrum = NONE THEN [tag |-> "pl2"] ELSE spectrum,
                               energy[k], eunit),
                 ExposureModel(psf, energy[k], eunit))])

\* Mutant of band_weights: the weights are left as they are.
band_weights_raw_only(raw) == raw

\* weights /= weights.sum()
band_weights(raw) ==
    LET total == RSum(raw)
    IN  Memo([k \in 1..Len(raw) |-> RDiv(raw[k], total)])

\* EnergyDependentTablePSF.table_psf_in_energy_range(energy_range, spectrum, n_bins).
EnergyDependentTablePSF_table_psf_in_energy_range(psf, energy_range, eunit, spectrum, n_bins) ==
    LET rad_axis == axis_of(psf, "rad")
        energy == band_energy(energy_range, n_bins)
        weights == band_weights(band_weights_raw(psf, energy, eunit, spectrum))
        psf_value == EnergyDependentTablePSF_evaluate(psf, energy, eunit,
                                                      rad_axis.center, rad_axis.unit)
        weighted(j) == Memo([k \in 1..Len(energy) |->
                                RMul(weights[k], psf_value.at[<<k, j>>])])
    IN  TablePSF_init(rad_axis, Arr(<<nbin(rad_axis)>>, LAMBDA ix : RSum(weighted(ix[1]))))

\* ------------------------------------------------------------- PSF3D
\* A quantity argument is [value |-> sequence, unit |-> unit]; a dict is a
\* function from its keys; `meta or {}` turns None into the empty dict.
EmptyDict == [k \in {} |-> R(0)]

\* NDDataArray._interpolate for axes [energy_true, offset, rad] at the points
\* (energy[np.newaxis, np.newaxis, :], offset[np.newaxis, :, np.newaxis],
\* rad[:, np.newaxis, np.newaxis]), each sequence in the unit of its axis: an
\* array of shape (len(rad), len(offset), len(energy)).
interpolate_3d(axes, data, energy, offset, rad) ==
    LET at_offset(i, j, o) ==
            Interp1(axes[2].center,
                    Memo([k \in 1..nbin(axes[2]) |-> data.at[<<i, k, j>>]]), o)
        profile == Memo([p \in (1..Len(energy)) \X (1..Len(offset)) |->
                      Memo([j \in 1..nbin(axes[3]) |->
                          Interp1(axes[1].center,
                                  Memo([i \in 1..nbin(axes[1]) |->
                                           at_offset(i, j, offset[p[2]])]),
                                  energy[p[1]])])])
    IN  Arr(<<Len(rad), Len(offset), Len(energy)>>,
            LAMBDA ix : Interp1(axes[3].center, profile[<<ix[3], ix[2]>>], rad[ix[1]]))

\* Mutant of PSF3D_init: only the number of dimensions of the data is checked.
PSF3D_init_ndim_only(energy_axis_true, offset_axis, rad_axis, data, meta) ==
    LET axes == <<energy_axis_true, offset_axis, rad_axis>>
    IN  IF ~assert_names(axes, <<"energy_true", "offset", "rad">>) THEN Raise("ValueError")
        ELSE IF ndim(data) # Len(axes) THEN Raise("ValueError")
        ELSE Ok([cls |-> "PSF3D", axes |-> axes, data |-> data,
                 meta |-> IF meta = NONE THEN EmptyDict ELSE meta])

\* PSF3D(energy_axis_true, offset_axis, rad_axis, data, meta).
PSF3D_init(energy_axis_true, offset_axis, rad_axis, data, meta) ==
    LET axes == <<energy_axis_true, offset_axis, rad_axis>>
    IN  IF ~assert_names(axes, <<"energy_true", "offset", "rad">>) THEN Raise("ValueError")
        ELSE LET nd == NDDataArray_init(axes, data)
             IN  IF nd.err # "" THEN nd
                 ELSE Ok([cls |-> "PSF3D", axes |-> nd.val.axes, data |-> nd.val.data,
                          meta |-> IF meta = NONE THEN EmptyDict ELSE meta])

\* PSF3D.energy_thresh_lo / energy_thresh_hi: meta["LO_THRES"] / meta["HI_THRES"]
\* in TeV; a missing key raises KeyError.
PSF3D_energy_thresh_lo(psf) ==
    IF "LO_THRES" \in DOMAIN psf.meta THEN Ok(psf.meta["LO_THRES"]) ELSE Raise("KeyError")

\* Mutant of PSF3D_energy_thresh_hi: a default stands in for a missing key.
PSF3D_energy_thresh_hi_default(psf) ==
    IF "HI_THRES" \in DOMAIN psf.meta THEN Ok(psf.meta["HI_THRES"]) ELSE Ok(R(100))

PSF3D_energy_thresh_hi(psf) ==
    IF "HI_THRES" \in DOMAIN psf.meta THEN Ok(psf.meta["HI_THRES"]) ELSE Raise("KeyError")

\* MapAxis.to_table(format="gadf-dl3"): the lower and the upper edges of the
\* bins as the pair of columns <prefix>_LO, <prefix>_HI, in the unit of the axis.
MapAxis_to_table_gadf(axis) ==
    [LO |-> SubSeq(axis.edges, 1, nbin(axis)),
     HI |-> SubSeq(axis.edges, 2, nbin(axis) + 1),
     unit |-> axis.unit]

\* MapAxes.from_table(format="gadf-dl3") for one column prefix: an axis from the
\* edges, the energy axis with log interpolation.
MapAxis_from_table_gadf(column, name) ==
    MapAxis_from_edges(Append(column.LO, column.HI[Len(column.HI)]), name, column.unit,
                       IF name = "energy_true" THEN "log" ELSE "lin")

\* PSF3D.to_hdulist(): one table of one row with the axis columns and the column
\* RPSF = data.T[np.newaxis]; the header holds LO_THRES and HI_THRES.
PSF3D_to_hdulist(psf) ==
    LET lo == PSF3D_energy_thresh_lo(psf)
        hi == PSF3D_energy_thresh_hi(psf)
    IN  IF lo.err # "" THEN lo
        ELSE IF hi.err # "" THEN hi
        ELSE Ok([cls |-> "HDUList",
                 PSF_2D_TABLE |->
                    [ENERG |-> MapAxis_to_table_gadf(axis_of(psf, "energy_true")),
                     THETA |-> MapAxis_to_table_gadf(axis_of(psf, "offset")),
                     RAD |-> MapAxis_to_table_gadf(axis_of(psf, "rad")),
                     RPSF |-> newaxis(transpose(psf.data)),
                     meta |-> [LO_THRES |-> lo.val, HI_THRES |-> hi.val]]])

\* Mutant of PSF3D_from_table: the RPSF array is taken as it is stored.
PSF3D_from_table_as_stored(table) ==
    PSF3D_init(MapAxis_from_table_gadf(table.ENERG, "energy_true"),
               MapAxis_from_table_gadf(table.THETA, "offset"),
               MapAxis_from_table_gadf(table.RAD, "rad"),
               first(table.RPSF),
               table.meta)

\* PSF3D.from_table(table): data = table["RPSF"].quantity[0].transpose().
PSF3D_from_table(table) ==
    PSF3D_init(MapAxis_from_table_gadf(table.ENERG, "energy_true"),
               MapAxis_from_table_gadf(table.THETA, "offset"),
               MapAxis_from_table_gadf(table.RAD, "rad"),
               transpose(first(table.RPSF)),
               table.meta)

\* The values of an argument of evaluate in the unit of the axis; the centers
\* of the axis when the argument is None.
OnAxis(axis, arg) ==
    IF arg = NONE THEN axis.center
    ELSE Memo([i \in 1..Len(arg.value) |->
                 CoordTo(arg.value[i], axis.name, arg.unit, axis.unit)])

\* PSF3D.evaluate(energy, offset, rad): shape (len(rad), len(offset), len(energy)).
PSF3D_evaluate(psf, energy, offset, rad) ==
    interpolate_3d(psf.axes, psf.data,
                   OnAxis(psf.axes[1], energy),
                   OnAxis(psf.axes[2], offset),
                   OnAxis(psf.axes[3], rad))

\* PSF3D.to_energy_dependent_table_psf(theta, rad, exposure); theta is
\* [value |-> angle, unit |-> unit], rad is None or a quantity of edges.
PSF3D_to_energy_dependent_table_psf(psf, theta, rad, exposure) ==
    LET rad_axis == IF rad # NONE
                    THEN MapAxis_from_edges(rad.value, "rad", rad.unit, "lin")
                    ELSE axis_of(psf, "rad")
        psf_value == squeeze(PSF3D_evaluate(psf, NONE,
                                            [value |-> <<theta.value>>, unit |-> theta.unit],
                                            [value |-> rad_axis.center,
                                             unit |-> rad_axis.unit]))
    IN  EnergyDependentTablePSF_init(axis_of(psf, "energy_true"), rad_axis, exposure,
                                     transpose(psf_value))

\* PSF3D.to_table_psf(energy, theta): energy is [value |-> lg, unit |-> unit].
PSF3D_to_table_psf(psf, energy, theta) ==
    LET psf_value == squeeze(PSF3D_evaluate(psf,
                                            [value |-> <<energy.value>>, unit |-> energy.unit],
                                            [value |-> <<theta.value>>, unit |-> theta.unit],
                                            NONE))
    IN  TablePSF_init(axis_of(psf, "rad"), psf_value)

\* The list `radii` of PSF3D.containment_radius as an array of shape
\* (len(theta), len(energy)); the error of the first derivation that fails.
PSF3D_radii(psf, energy, theta, fraction) ==
    LET derived == Memo([t \in 1..Len(theta.value) |->
                            PSF3D_to_energy_dependent_table_psf(
                                psf, [value |-> theta.value[t], unit |-> theta.unit],
                                NONE, NONE)])
        failed == {t \in 1..Len(theta.value) : derived[t].err # ""}
        radius == Memo([t \in 1..Len(theta.value) |->
                          EnergyDependentTablePSF_containment_radius(
                              derived[t].val, energy.value, energy.unit, fraction)])
    IN  IF failed # {}
        THEN Raise(derived[CHOOSE t \in failed : \A s \in failed : t <= s].err)
        ELSE Ok(Arr(<<Len(theta.value), Len(energy.value)>>,
                    LAMBDA ix : radius[ix[1]][ix[2]]))

\* Mutant of PSF3D_containment_radius: the radii are not transposed.
PSF3D_containment_radius_by_offset(psf, energy, theta, fraction) ==
    LET radii == PSF3D_radii(psf, energy, theta, fraction)
    IN  IF radii.err # "" THEN radii ELSE Ok(squeeze(radii.val))

\* PSF3D.containment_radius(energy, theta, fraction): u.Quantity(radii).T.squeeze(),
\* in deg.
PSF3D_containment_radius(psf, energy, theta, fraction) ==
    LET radii == PSF3D_radii(psf, energy, theta, fraction)
    IN  IF radii.err # "" THEN radii ELSE Ok(squeeze(transpose(radii.val)))

\* ------------------------------------------------- FoVBackgroundMaker
\* sub in s, for two strings.
Contains(sub, s) ==
    \E i \in 1..(Len(s) - Len(sub) + 1) : SubSeq(s, i, i + Len(sub) - 1) = sub

\* Mutant of FoVBackgroundMaker_init: a method that is not valid is replaced by
\* the default.
FoVBackgroundMaker_init_default(method, exclusion_mask, spectral_model_tag) ==
    IF ~Contains("norm", spectral_model_tag) THEN Raise("ValueError")
    ELSE Ok([cls |-> "FoVBackgroundMaker",
             method |-> IF method \in {"fit", "scale"} THEN method ELSE "scale",
             exclusion_mask |-> exclusion_mask,
             spectral_model_tag |-> spectral_model_tag])

\* FoVBackgroundMaker(method, exclusion_mask, spectral_model_tag).
FoVBackgroundMaker_init(method, exclusion_mask, spectral_model_tag) ==
    IF method \notin {"fit", "scale"} THEN Raise("ValueError")
    ELSE IF ~Contains("norm", spectral_model_tag) THEN Raise("ValueError")
         ELSE Ok([cls |-> "FoVBackgroundMaker", method |-> method,
                  exclusion_mask |-> exclusion_mask,
                  spectral_model_tag |-> spectral_model_tag])

\* A map dataset is [name, counts, background, mask_safe, mask_fit, models]:
\* counts and background (the template) hold one value per pixel of one energy
\* bin, a mask is None or a map of one boolean per pixel, models is None or the
\* list of the models.  A parameter is [name, value, frozen].
Models(list) == [cls |-> "Models", list |-> list]

Parameter(name, value, frozen) == [name |-> name, value |-> value, frozen |-> frozen]

\* Model.create(tag, model_type="spectral") for a norm spectral model: norm 1,
\* free; tilt 0 and reference 1, frozen.
Model_create(tag) ==
    [tag |-> tag,
     parameters |-> <<Parameter("norm", R(1), FALSE), Parameter("tilt", R(0), TRUE),
                      Parameter("reference", R(1), TRUE)>>]

\* FoVBackgroundModel(dataset_name, spectral_model): its name is
\* "<dataset_name>-bkg".
FoVBackgroundModel(dataset_name, spectral_model) ==
    [cls |-> "FoVBackgroundModel", name |-> dataset_name \o "-bkg",
     dataset_name |-> dataset_name, spectral_model |-> spectral_model]

\* model.parameters, and the model with other parameters.
Parameters(model) ==
    IF model.cls = "FoVBackgroundModel" THEN model.spectral_model.parameters
    ELSE model.parameters

WithParameters(model, parameters) ==
    IF model.cls = "FoVBackgroundModel"
    THEN [model EXCEPT !.spectral_model.parameters = parameters]
    ELSE [model EXCEPT !.parameters = parameters]

\* The position in dataset.models of the model called `name`; 0 if there is
\* none or dataset.models is None.
ModelIndex(ds, name) ==
    IF ds.models = NONE THEN 0
    ELSE IF \E m \in 1..Len(ds.models.list) : ds.models.list[m].name = name
         THEN CHOOSE m \in 1..Len(ds.models.list) :
                 /\ ds.models.list[m].name = name
                 /\ \A k \in 1..(m - 1) : ds.models.list[k].name # name
         ELSE 0

\* dataset.background_model: the model called "<dataset.name>-bkg", or None.
background_model(ds) ==
    LET m == ModelIndex(ds, ds.name \o "-bkg")
    IN  IF m = 0 THEN NONE ELSE ds.models.list[m]

\* dataset.mask: mask_safe & mask_fit, or the one of the two that is set, or
\* None.
dataset_mask(ds) ==
    IF ds.mask_safe # NONE /\ ds.mask_fit # NONE
    THEN [data |-> [i \in 1..Len(ds.counts) |->
                       ds.mask_safe.data[i] /\ ds.mask_fit.data[i]]]
    ELSE IF ds.mask_safe # NONE THEN ds.mask_safe
         ELSE ds.mask_fit

\* map.data[mask].sum(); a mask of None selects every pixel.
masked_sum(data, mask) ==
    RSum([i \in 1..Len(data) |-> IF mask = NONE \/ mask.data[i] THEN data[i] ELSE R(0)])

\* dataset.npred_background(): the template times the background model (its
\* norm, the energy bin being at the reference energy); the template alone when
\* there is no background model.
npred_background(ds) ==
    LET model == background_model(ds)
    IN  IF model = NONE THEN ds.background
        ELSE [i \in 1..Len(ds.background) |->
                 RMul(Parameters(model)[1].value, ds.background[i])]

\* exclusion_mask.interp_to_geom(geom): the value of the nearest pixel of the
\* mask for every pixel of a geometry of n pixels.
interp_to_geom(exclusion_mask, n) ==
    [data |-> [i \in 1..n |->
                 exclusion_mask.data[((i - 1) * Len(exclusion_mask.data)) \div n + 1]]]

\* Mutant of make_default_fov_background_model: the default model takes the
\* place of the models of the dataset.
make_default_fov_background_model_alone(self, ds) ==
    [ds EXCEPT !.models =
        Models(<<FoVBackgroundModel(ds.name, Model_create(self.spectral_model_tag))>>)]

\* FoVBackgroundMaker.make_default_fov_background_model(dataset).
make_default_fov_background_model(self, ds) ==
    LET spectral_model == Model_create(self.spectral_model_tag)
        bkg_model == FoVBackgroundModel(ds.name, spectral_model)
    IN  IF ds.models = NONE
        THEN [ds EXCEPT !.models = Models(<<bkg_model>>)]
        ELSE [ds EXCEPT !.models.list = Append(@, bkg_model)]

\* datasets.parameters with something done to every parameter: f(m, k, par)
\* for parameter k of model m.
MapParameters(ds, f(_, _, _)) ==
    [ds EXCEPT !.models.list =
        [m \in 1..Len(@) |->
            WithParameters(@[m],
                [k \in 1..Len(Parameters(@[m])) |-> f(m, k, Parameters(@[m])[k])])]]

\* parameters_frozen: the frozen flag of every parameter of the dataset.
parameters_frozen(ds) ==
    [m \in 1..Len(ds.models.list) |->
        [k \in 1..Len(Parameters(ds.models.list[m])) |->
            Parameters(ds.models.list[m])[k].frozen]]

\* Mutant of freeze: every parameter is frozen.
freeze_all(ds) ==
    MapParameters(ds, LAMBDA m, k, par : [par EXCEPT !.frozen = TRUE])

\* The first loop of _fit_bkg: every parameter that is not one of the
\* background model is frozen.
freeze(ds) ==
    LET bkg == ModelIndex(ds, ds.name \o "-bkg")
    IN  MapParameters(ds, LAMBDA m, k, par :
                              IF m = bkg THEN par ELSE [par EXCEPT !.frozen = TRUE])

\* Mutant of unfreeze: the flags are left as the fit had them.
unfreeze_none(ds, flags) == ds

\* The last loop of _fit_bkg: par.frozen = parameters_frozen[idx].
unfreeze(ds, flags) ==
    MapParameters(ds, LAMBDA m, k, par : [par EXCEPT !.frozen = flags[m][k]])

\* Fit(datasets).run(): the optimizer leaves a value of its own on every free
\* parameter and touches no frozen one; `fit` is what it does this time,
\* [success, value].
Fit_run(ds, fit) ==
    MapParameters(ds, LAMBDA m, k, par :
                          IF par.frozen THEN par ELSE [par EXCEPT !.value = fit.value])

\* FoVBackgroundMaker._fit_bkg(dataset): the dataset after the call, the
\* warnings logged and the dataset as the fit was given it.
fit_bkg(ds, fit) ==
    LET flags == parameters_frozen(ds)
        frozen == freeze(ds)
        fitted == Fit_run(frozen, fit)
    IN  [dataset |-> unfreeze(fitted, flags),
         warnings |-> IF fit.success THEN <<>> ELSE <<"Fit did not converge">>,
         during |-> frozen]

\* dataset.models["<name>-bkg"].spectral_model.norm.value = value
set_norm(ds, value) ==
    LET bkg == ModelIndex(ds, ds.name \o "-bkg")
    IN  [ds EXCEPT !.models.list[bkg].spectral_model.parameters[1].value = value]

\* Mutant of scale_bkg: the totals are not looked at.
scale_bkg_unguarded(ds) ==
    LET mask == dataset_mask(ds)
        count_tot == masked_sum(ds.counts, mask)
        bkg_tot == masked_sum(npred_background(ds), mask)
    IN  [dataset |-> set_norm(ds, RDiv(count_tot, bkg_tot)), warnings |-> <<>>,
         during |-> ds]

\* FoVBackgroundMaker._scale_bkg(dataset).
scale_bkg(ds) ==
    LET mask == dataset_mask(ds)
        count_tot == masked_sum(ds.counts, mask)
        bkg_tot == masked_sum(npred_background(ds), mask)
    IN  IF RLe(count_tot, R(0))
        THEN [dataset |-> ds, warnings |-> <<"No counts found outside exclusion mask">>,
              during |-> ds]
        ELSE IF RLe(bkg_tot, R(0))
             THEN [dataset |-> ds,
                   warnings |-> <<"No positive background found outside exclusion mask">>,
                   during |-> ds]
             ELSE [dataset |-> set_norm(ds, RDiv(count_tot, bkg_tot)),
                   warnings |-> <<>>, during |-> ds]

\* Mutant of FoVBackgroundMaker_run: mask_fit is not set back.
FoVBackgroundMaker_run_mask_left(self, ds, fit) ==
    LET masked == IF self.exclusion_mask # NONE
                  THEN [ds EXCEPT !.mask_fit =
                           interp_to_geom(self.exclusion_mask, Len(ds.counts))]
                  ELSE ds
        with_bkg == IF background_model(masked) = NONE
                    THEN make_default_fov_background_model(self, masked)
                    ELSE masked
    IN  IF self.method = "fit" THEN fit_bkg(with_bkg, fit) ELSE scale_bkg(with_bkg)

\* FoVBackgroundMaker.run(dataset): the dataset returned, the warnings logged
\* and the dataset as it was while the background was scaled or fitted.
FoVBackgroundMaker_run(self, ds, fit) ==
    LET mask_fit == ds.mask_fit
        masked == IF self.exclusion_mask # NONE
                  THEN [ds EXCEPT !.mask_fit =
                           interp_to_geom(self.exclusion_mask, Len(ds.counts))]
                  ELSE ds
        with_bkg == IF background_model(masked) = NONE
                    THEN make_default_fov_background_model(self, masked)
                    ELSE masked
        r == IF self.method = "fit" THEN fit_bkg(with_bkg, fit) ELSE scale_bkg(with_bkg)
    IN  [r EXCEPT !.dataset.mask_fit = mask_fit]

\* ------------------------------------------------------------- inputs
\* The increasing sequence that starts at 0 and has the given spacings.
RECURSIVE Cumul(_)
Cumul(steps) ==
    IF steps = <<>> THEN <<R(0)>>
    ELSE LET c == Cumul(SubSeq(steps, 1, Len(steps) - 1))
         IN  Append(c, RAdd(c[Len(c)], R(steps[Len(steps)])))

\* PSF values: small integers; the constructors accept negative values too.
Values == {R(v) : v \in (-1)..MaxVal}

Profiles(n) == {Vec(s) : s \in [1..n -> Values]}

\* rad_max arrays for containment(): every half unit up to beyond the axis,
\* ascending or descending.
RadMaxUp == [k \in 1..(4 * MaxBins + 1) |-> Rat(k - 1, 2)]

RadMaxArguments ==
    {<<RadMaxUp, "deg">>, <<Reverse(RadMaxUp), "arcmin">>, <<<<R(1)>>, "deg">>}

\* Fraction arrays for containment_radius(): fractions from 0 to beyond every
\* containment, not in ascending order.
FractionArrays == {<<R(1), R(0), Rat(1, 2)>>, <<R(2 * MaxVal + 1), Rat(1, 4)>>}

\* One regular and one irregular grid of n points starting at 0.
Uniform(n) == Cumul([i \in 1..(n - 1) |-> 1])

Irregular(n) == Cumul([i \in 1..(n - 1) |-> IF i % 2 = 1 THEN 2 ELSE 1])

\* Energy axes (decimal logarithms of the energies) and rad axes of the
\* energy-dependent PSFs drawn as inputs.
EnergyNodeAxes ==
    UNION {{MapAxis_from_nodes(Uniform(n), "energy_true", "GeV", "log"),
            MapAxis_from_nodes(Irregular(n), "energy_true", "TeV", "log")} :
           n \in 2..MaxBins}

RadAxes2 ==
    UNION {{MapAxis_from_nodes(Uniform(n), "rad", "deg", "lin"),
            MapAxis_from_nodes(Irregular(n), "rad", "arcmin", "lin"),
            MapAxis_from_edges(Irregular(n + 1), "rad", "deg", "lin")} :
           n \in 2..MaxBins}

\* Arrays of a given shape: value = (sum of coef[d] * (index[d] - 1) + off)
\* modulo (MaxVal + 1); a coefficient of 0 on one axis and 1 on another tells
\* the two axes apart.
RECURSIVE WSum(_, _)
WSum(coef, ix) ==
    IF ix = <<>> THEN 0
    ELSE WSum(coef, SubSeq(ix, 1, Len(ix) - 1))
         + coef[Len(ix)] * (ix[Len(ix)] - 1)

Pattern(shape, coef, off) ==
    Arr(shape, LAMBDA ix : R((WSum(coef, ix) + off) % (MaxVal + 1)))

Patterns(shape) ==
    {Pattern(shape, coef, off) : coef \in [1..Len(shape) -> 0..1], off \in 0..MaxVal}

\* Exposure arguments: none, one in cm2 min, and an exposure of zero.
Exposures(n) ==
    {NONE,
     [value |-> [i \in 1..n |-> R(i)], unit |-> "cm2 min"],
     [value |-> [i \in 1..n |-> R(0)], unit |-> "cm2 s"]}

\* Exposure arguments of any length from 1 to MaxBins, whatever the energy axis.
AnyExposures ==
    {NONE} \cup {[value |-> [i \in 1..m |-> R(i)], unit |-> unit] :
                    m \in 1..MaxBins, unit \in {"cm2 s", "cm2 min"}}

EnergyArrays == {<<Rat(1, 2)>>, <<R(0), Rat(3, 2)>>}

\* n_bins of table_psf_in_energy_range when the caller gives none.
DefaultNBins == 11

\* Calls of table_psf_in_energy_range: energy ranges in GeV (as logarithms),
\* spectral models (NONE: the default) and numbers of bins.  The default power
\* law is called only where it is rational (see SpectralModel).
EnergyRanges == {<<R(0), R(2)>>, <<R(2), R(4)>>}

BandArguments ==
    {<<NONE, 1>>, <<NONE, 2>>,
     <<[tag |-> "const", value |-> R(0)], 2>>,
     <<[tag |-> "const", value |-> R(2)], DefaultNBins>>,
     <<[tag |-> "line"], 2>>,
     <<[tag |-> "line"], DefaultNBins>>}

\* PSF3D inputs: axes given by edges, as the gadf-dl3 format holds them, of
\* 1..2 bins (energy, offset) and 1..MaxBins bins (rad).
EnergyEdgeAxis(n) == MapAxis_from_edges(Uniform(n + 1), "energy_true", "TeV", "log")

OffsetEdgeAxis(n) == MapAxis_from_edges(Uniform(n + 1), "offset", "deg", "lin")

RadEdgeAxis(n) == MapAxis_from_edges(Irregular(n + 1), "rad", "deg", "lin")

Shapes3D == (1..2) \X (1..2) \X (1..MaxBins)

Patterns3D(shape) == {Pattern(shape, coef, MaxVal) : coef \in [1..3 -> 0..1]}

\* How the data argument relates to the array meant for the declared axes.
Given == {"as declared", "transposed", "offset axis missing"}

GivenData(p, given) ==
    CASE given = "transposed" -> transpose(p)
      [] given = "offset axis missing" ->
            Arr(<<p.shape[1], p.shape[3]>>, LAMBDA ix : p.at[<<ix[1], 1, ix[2]>>])
      [] OTHER -> p

\* A meta dict with the energy thresholds (in TeV) and one more key.
Meta == [LO_THRES |-> Rat(1, 10), HI_THRES |-> R(100), TELESCOP |-> "CTA"]

\* The (array meant, how it is given, meta) of the constructor calls for the
\* axes of a shape: every pattern with meta, one pattern without.
PSF3DArguments(shape) ==
    {<<p, given, Meta>> : p \in Patterns3D(shape), given \in Given}
    \cup {<<Pattern(shape, [d \in 1..3 |-> 1], MaxVal), "as declared", NONE>>}

\* Arguments of the PSF3D derivations: offsets, rad edges, energies (decimal
\* logarithms) and fractions.
Thetas ==
    {[value |-> R(0), unit |-> "deg"],
     [value |-> Rat(1, 2), unit |-> "deg"],
     [value |-> R(60), unit |-> "arcmin"]}

RadEdges ==
    {NONE,
     [value |-> <<R(0), R(1), R(3)>>, unit |-> "deg"],
     [value |-> <<R(0), R(120)>>, unit |-> "arcmin"]}

OneEnergy == [value |-> <<Rat(1, 2)>>, unit |-> "TeV"]

Energies == [value |-> <<Rat(3, 2), Rat(1, 2), R(1)>>, unit |-> "TeV"]

OneTheta == [value |-> <<R(0)>>, unit |-> "deg"]

TwoThetas == [value |-> <<Rat(3, 2), Rat(1, 2)>>, unit |-> "deg"]

\* The (energy, theta, fraction) of the calls of PSF3D.containment_radius.
RadiusArguments ==
    {<<OneEnergy, OneTheta, Rat(17, 25)>>,
     <<[value |-> <<R(3)>>, unit |-> "GeV"], OneTheta, R(2)>>,
     <<Energies, OneTheta, Rat(17, 25)>>,
     <<OneEnergy, TwoThetas, Rat(17, 25)>>,
     <<Energies, TwoThetas, Rat(17, 25)>>}

\* Arguments of TablePSF.from_shape: shape tags, widths and offset angles.
ShapeTags == {"disk", "gauss", "Disk", "tophat", ""}

Widths == {[value |-> R(1), unit |-> "deg"], [value |-> R(90), unit |-> "arcmin"]}

RadAngles ==
    {[value |-> Uniform(n), unit |-> "deg"] : n \in 2..MaxBins}
    \cup {[value |-> Memo([i \in 1..MaxBins |-> R(60 * (i - 1))]), unit |-> "arcmin"]}

\* Arguments of FoVBackgroundMaker: methods, spectral model tags with and
\* without "norm" in them, and exclusion masks (None, one on the geometry of
\* the counts, one on a geometry twice as fine); NPix is the number of pixels
\* of the counts geometry.
NPix == 2

\* The most models a dataset holds in a run.
MaxModels == 3

Methods == {"fit", "scale", "Fit", "minuit", ""}

TagsWithNorm == {"pl-norm", "norm-pl"}

TagsWithoutNorm == {"pl", "nor-m", "NORM", ""}

ExclusionMasks ==
    {NONE,
     [data |-> [i \in 1..NPix |-> i # 1]],
     [data |-> [i \in 1..(2 * NPix) |-> i > NPix]]}

\* Datasets: counts and background templates per pixel, safe and fit masks,
\* and the models set on the dataset before the maker runs: none, a sky model
\* (amplitude free, index frozen), and background models of the dataset with
\* several norms, free or frozen.
CountsMaps ==
    {[i \in 1..NPix |-> R(0)],
     [i \in 1..NPix |-> R(i)],
     [i \in 1..NPix |-> IF i = 1 THEN R(MaxVal + 2) ELSE R(0)]}

BackgroundMaps ==
    {[i \in 1..NPix |-> R(1)],
     [i \in 1..NPix |-> IF i = 1 THEN R(0) ELSE R(2)]}

SafeMasks == {NONE, [data |-> [i \in 1..NPix |-> i # NPix]]}

FitMasks == {NONE, [data |-> [i \in 1..NPix |-> i = 1]]}

SkyModel ==
    [cls |-> "SkyModel", name |-> "source",
     parameters |-> <<Parameter("amplitude", R(1), FALSE), Parameter("index", R(2), TRUE)>>]

BkgModel(norm, frozen) ==
    FoVBackgroundModel("ds",
        [tag |-> "pl-norm",
         parameters |-> <<Parameter("norm", norm, frozen), Parameter("tilt", R(0), TRUE),
                          Parameter("reference", R(1), TRUE)>>])

ModelLists ==
    {NONE,
     Models(<<SkyModel>>),
     Models(<<BkgModel(R(1), FALSE)>>),
     Models(<<BkgModel(R(2), FALSE), SkyModel>>),
     Models(<<SkyModel, BkgModel(Rat(1, 2), TRUE)>>),
     Models(<<BkgModel(R(0), FALSE)>>),
     Models(<<BkgModel(R(-1), FALSE)>>)}

\* What the optimizer does in a fit: whether it converges, and the value it
\* leaves on the free parameters.
FitOutcomes == {[success |-> ok, value |-> v] : ok \in BOOLEAN, v \in {R(3), Rat(1, 4)}}

\* ------------------------------------------------- TablePSF actions
NewTablePSF ==
    /\ Fresh
    /\ \E rad_axis \in RadAxes2 : \E data \in Profiles(nbin(rad_axis)) :
          LET r == TablePSF_init(rad_axis, data)
          IN  /\ tpsf' = r.val
              /\ call' = [op |-> "TablePSF", pure |-> FALSE, err |-> r.err]
              /\ mem' = [mem EXCEPT !.tpsf = Held(r, UserArray, "TablePSF")]
    /\ UNCHANGED <<edep, psf3d, hdul, maker, dataset>>

Containment ==
    /\ tpsf # NONE
    /\ Settled
    /\ \E arg \in RadMaxArguments :
          call' = [op |-> "TablePSF.containment", pure |-> TRUE,
                   rad_max |-> arg[1], unit |-> arg[2],
                   ret |-> TablePSF_containment(tpsf, arg[1], arg[2])]
    /\ UNCHANGED <<tpsf, edep, psf3d, hdul, mem, maker, dataset>>

ContainmentRadius ==
    /\ tpsf # NONE
    /\ Settled
    /\ \E fraction \in FractionArrays :
          call' = [op |-> "TablePSF.containment_radius", pure |-> TRUE,
                   fraction |-> fraction,
                   ret |-> TablePSF_containment_radius(tpsf, fraction)]
    /\ UNCHANGED <<tpsf, edep, psf3d, hdul, mem, maker, dataset>>

Normalize ==
    /\ tpsf # NONE
    /\ LET integral == TablePSF_integral(tpsf)
       IN  /\ tpsf' = TablePSF_normalize(tpsf)
           /\ edep' = Written(edep, mem.edep, mem.tpsf, integral)
           /\ psf3d' = Written(psf3d, mem.psf3d, mem.tpsf, integral)
           /\ call' = [op |-> "TablePSF.normalize", pure |-> FALSE,
                       before |-> tpsf.data, integral |-> integral]
    /\ UNCHANGED <<hdul, mem, maker, dataset>>

FromShape ==
    /\ Fresh
    /\ \E shape \in ShapeTags : \E width \in Widths : \E rad \in RadAngles :
          LET r == TablePSF_from_shape(shape, width, rad)
          IN  /\ tpsf' = r.val
              /\ call' = [op |-> "TablePSF.from_shape", pure |-> FALSE, err |-> r.err,
                          shape |-> shape, width |-> width, rad |-> rad]
              /\ mem' = [mem EXCEPT !.tpsf = Held(r, Whole("np.where"), "TablePSF")]
    /\ UNCHANGED <<edep, psf3d, hdul, maker, dataset>>

\* ----------------------------------- EnergyDependentTablePSF actions
NewEnergyDependentTablePSF ==
    /\ Fresh
    /\ \E energy_axis_true \in EnergyNodeAxes : \E rad_axis \in RadAxes2 :
       \E data \in Patterns(<<nbin(energy_axis_true), nbin(rad_axis)>>) :
       \E exposure \in Exposures(nbin(energy_axis_true)) :
          LET r == EnergyDependentTablePSF_init(energy_axis_true, rad_axis, exposure, data)
          IN  /\ edep' = r.val
              /\ call' = [op |-> "EnergyDependentTablePSF", pure |-> FALSE, err |-> r.err]
              /\ mem' = [mem EXCEPT !.edep = Held(r, UserArray, "EnergyDependentTablePSF")]
    /\ UNCHANGED <<tpsf, psf3d, hdul, maker, dataset>>

EDepContainment ==
    /\ edep # NONE
    /\ Settled
    /\ \E energy \in EnergyArrays : \E arg \in RadMaxArguments :
          call' = [op |-> "EnergyDependentTablePSF.containment", pure |-> TRUE,
                   energy |-> energy, rad_max |-> arg[1], unit |-> arg[2],
                   ret |-> EnergyDependentTablePSF_containment(edep, energy, "GeV",
                                                               arg[1], arg[2])]
    /\ UNCHANGED <<tpsf, edep, psf3d, hdul, mem, maker, dataset>>

\* hdul = psf.to_hdulist(): a call that raises assigns nothing, and the
\* structure written before is still there.
ToHDUList ==
    /\ edep # NONE
    /\ LET r == EnergyDependentTablePSF_to_hdulist(edep)
       IN  /\ hdul' = IF r.err = "" THEN r.val ELSE hdul
           /\ call' = [op |-> "EnergyDependentTablePSF.to_hdulist", pure |-> FALSE,
                       err |-> r.err]
    /\ UNCHANGED <<tpsf, edep, psf3d, mem, maker, dataset>>

FromHDUList ==
    /\ "PSF" \in DOMAIN hdul
    /\ LET r == EnergyDependentTablePSF_from_hdulist(hdul)
       IN  /\ edep' = IF r.err = "" THEN r.val ELSE edep
           /\ call' = [op |-> "EnergyDependentTablePSF.from_hdulist", pure |-> FALSE,
                       err |-> r.err, orig |-> edep]
           /\ mem' = IF r.err = ""
                      THEN [mem EXCEPT !.edep = Held(r, Whole("Table.read"),
                                                     "EnergyDependentTablePSF")]
                      ELSE mem
    /\ UNCHANGED <<tpsf, psf3d, hdul, maker, dataset>>

TablePsfInEnergyRange ==
    /\ edep # NONE
    /\ tpsf = NONE
    /\ \E energy_range \in EnergyRanges : \E arg \in BandArguments :
          LET energy == band_energy(energy_range, arg[2])
              raw == band_weights_raw(edep, energy, "GeV", arg[1])
              r == EnergyDependentTablePSF_table_psf_in_energy_range(
                       edep, energy_range, "GeV", arg[1], arg[2])
          IN  /\ tpsf' = r.val
              /\ call' = [op |-> "EnergyDependentTablePSF.table_psf_in_energy_range",
                          pure |-> FALSE, err |-> r.err,
                          energy_range |-> energy_range, spectrum |-> arg[1],
                          n_bins |-> arg[2], energy |-> energy,
                          raw |-> raw, weights |-> band_weights(raw)]
              /\ mem' = [mem EXCEPT !.tpsf = Held(r, Whole("ndarray.sum"), "TablePSF")]
    /\ UNCHANGED <<edep, psf3d, hdul, maker, dataset>>

TablePsfAtEnergy ==
    /\ edep # NONE
    /\ tpsf = NONE
    /\ \E energy \in {Rat(1, 2), R(4)} :
          LET r == EnergyDependentTablePSF_table_psf_at_energy(edep, energy, "GeV")
          IN  /\ tpsf' = r.val
              /\ call' = [op |-> "EnergyDependentTablePSF.table_psf_at_energy",
                          pure |-> FALSE, err |-> r.err, energy |-> energy]
              /\ mem' = [mem EXCEPT !.tpsf =
                            Held(r, RowView(Whole("EnergyDependentTablePSF.evaluate"), 1),
                                 "TablePSF")]
    /\ UNCHANGED <<edep, psf3d, hdul, maker, dataset>>

\* TablePSF(rad_axis=psf.rad_axis, data=psf.data.data[0]): a caller constructs
\* a TablePSF from a view of the first row of the data of an
\* EnergyDependentTablePSF.
NewTablePSFFromRow ==
    /\ edep # NONE
    /\ tpsf = NONE
    /\ LET r == TablePSF_init(axis_of(edep, "rad"), first(edep.data))
       IN  /\ tpsf' = r.val
           /\ call' = [op |-> "TablePSF", pure |-> FALSE, err |-> r.err]
           /\ mem' = [mem EXCEPT !.tpsf = Held(r, RowView(mem.edep, 1), "TablePSF")]
    /\ UNCHANGED <<edep, psf3d, hdul, maker, dataset>>

\* A constructor call with an exposure of any length and the two axes in
\* either order.
NewEnergyDependentTablePSFAnyExposure ==
    /\ Fresh
    /\ \E energy_axis_true \in EnergyNodeAxes : \E rad_axis \in RadAxes2 :
       \E exposure \in AnyExposures : \E swapped \in BOOLEAN :
          LET shape == <<nbin(energy_axis_true), nbin(rad_axis)>>
              data == Pattern(shape, <<1, 0>>, 0)
              r == IF swapped
                   THEN EnergyDependentTablePSF_init(rad_axis, energy_axis_true, exposure,
                                                     transpose(data))
                   ELSE EnergyDependentTablePSF_init(energy_axis_true, rad_axis, exposure,
                                                     data)
          IN  /\ edep' = r.val
              /\ call' = [op |-> "EnergyDependentTablePSF", pure |-> FALSE, err |-> r.err,
                          exposure |-> exposure, swapped |-> swapped]
              /\ mem' = [mem EXCEPT !.edep = Held(r, UserArray, "EnergyDependentTablePSF")]
    /\ UNCHANGED <<tpsf, psf3d, hdul, maker, dataset>>

\* ------------------------------------------------------ PSF3D actions
NewPSF3D ==
    /\ Fresh
    /\ \E shape \in Shapes3D : \E arg \in PSF3DArguments(shape) :
          LET data == GivenData(arg[1], arg[2])
              r == PSF3D_init(EnergyEdgeAxis(shape[1]), OffsetEdgeAxis(shape[2]),
                              RadEdgeAxis(shape[3]), data, arg[3])
          IN  /\ psf3d' = r.val
              /\ call' = [op |-> "PSF3D", pure |-> FALSE, err |-> r.err,
                          nbins |-> shape, data |-> data, intended |-> arg[1]]
              /\ mem' = [mem EXCEPT !.psf3d = Held(r, UserArray, "PSF3D")]
    /\ UNCHANGED <<tpsf, edep, hdul, maker, dataset>>

EnergyThresh ==
    /\ psf3d # NONE
    /\ Settled
    /\ call' = [op |-> "PSF3D.energy_thresh", pure |-> TRUE,
                lo |-> PSF3D_energy_thresh_lo(psf3d),
                hi |-> PSF3D_energy_thresh_hi(psf3d)]
    /\ UNCHANGED <<tpsf, edep, psf3d, hdul, mem, maker, dataset>>

\* hdul = psf.to_hdulist(): a call that raises assigns nothing, and the
\* structure written before is still there.
PSF3DToHDUList ==
    /\ psf3d # NONE
    /\ LET r == PSF3D_to_hdulist(psf3d)
       IN  /\ hdul' = IF r.err = "" THEN r.val ELSE hdul
           /\ call' = [op |-> "PSF3D.to_hdulist", pure |-> FALSE, err |-> r.err]
    /\ UNCHANGED <<tpsf, edep, psf3d, mem, maker, dataset>>

PSF3DFromTable ==
    /\ "PSF_2D_TABLE" \in DOMAIN hdul
    /\ LET r == PSF3D_from_table(hdul.PSF_2D_TABLE)
       IN  /\ psf3d' = IF r.err = "" THEN r.val ELSE psf3d
           /\ call' = [op |-> "PSF3D.from_table", pure |-> FALSE, err |-> r.err,
                       orig |-> psf3d]
           /\ mem' = IF r.err = ""
                      THEN [mem EXCEPT !.psf3d = Held(r, Whole("Table.read"), "PSF3D")]
                      ELSE mem
    /\ UNCHANGED <<tpsf, edep, hdul, maker, dataset>>

\* del hdu.header[key]: a table as another tool wrote it, without one of the
\* keywords to_hdulist writes.
RemoveKeyword ==
    /\ "PSF_2D_TABLE" \in DOMAIN hdul
    /\ \E key \in DOMAIN hdul.PSF_2D_TABLE.meta :
          /\ hdul' = [hdul EXCEPT !.PSF_2D_TABLE.meta =
                         [k \in DOMAIN @ \ {key} |-> @[k]]]
          /\ call' = [op |-> "Header.remove", pure |-> FALSE, key |-> key]
    /\ UNCHANGED <<tpsf, edep, psf3d, mem, maker, dataset>>

\* The derivations and the queries of a PSF3D are made on the PSF3D as it was
\* constructed, before any other call: a query or a derivation that fails
\* leaves every object as it was, so the calls made after one reach the states
\* the same calls reach without it.
Underived == psf3d # NONE /\ call.op = "PSF3D"

ToEnergyDependentTablePSF ==
    /\ Underived
    /\ \E theta \in Thetas : \E rad \in RadEdges :
       \E exposure \in {NONE, [value |-> [i \in 1..nbin(axis_of(psf3d, "energy_true")) |-> R(2)],
                                unit |-> "cm2 s"]} :
          LET r == PSF3D_to_energy_dependent_table_psf(psf3d, theta, rad, exposure)
          IN  /\ edep' = r.val
              /\ call' = [op |-> "PSF3D.to_energy_dependent_table_psf", pure |-> FALSE,
                          err |-> r.err, theta |-> theta, rad |-> rad,
                          exposure |-> exposure]
              /\ mem' = [mem EXCEPT !.edep = Held(r, Whole("PSF3D.evaluate"),
                                                  "EnergyDependentTablePSF")]
    /\ UNCHANGED <<tpsf, psf3d, hdul, maker, dataset>>

ToTablePSF ==
    /\ Underived
    /\ \E energy \in {[value |-> Rat(1, 2), unit |-> "TeV"], [value |-> R(4), unit |-> "GeV"]} :
       \E theta \in Thetas :
          LET r == PSF3D_to_table_psf(psf3d, energy, theta)
          IN  /\ tpsf' = r.val
              /\ call' = [op |-> "PSF3D.to_table_psf", pure |-> FALSE, err |-> r.err,
                          energy |-> energy, theta |-> theta]
              /\ mem' = [mem EXCEPT !.tpsf = Held(r, Whole("PSF3D.evaluate"), "TablePSF")]
    /\ UNCHANGED <<edep, psf3d, hdul, maker, dataset>>

PSF3DContainmentRadius ==
    /\ Underived
    /\ \E arg \in RadiusArguments :
          LET r == PSF3D_containment_radius(psf3d, arg[1], arg[2], arg[3])
          IN  call' = [op |-> "PSF3D.containment_radius", pure |-> TRUE, err |-> r.err,
                       energy |-> arg[1], theta |-> arg[2], fraction |-> arg[3],
                       ret |-> r.val]
    /\ UNCHANGED <<tpsf, edep, psf3d, hdul, mem, maker, dataset>>

\* ------------------------------------------ FoVBackgroundMaker actions
\* One constructor call of the maker in a run.
NewFoVBackgroundMaker ==
    /\ maker = NONE
    /\ call.op # "FoVBackgroundMaker"
    /\ \E method \in Methods : \E exclusion_mask \in ExclusionMasks :
       \E spectral_model_tag \in TagsWithNorm \cup TagsWithoutNorm :
          LET r == FoVBackgroundMaker_init(method, exclusion_mask, spectral_model_tag)
          IN  /\ maker' = r.val
              /\ call' = [op |-> "FoVBackgroundMaker", pure |-> FALSE, err |-> r.err,
                          method |-> method, exclusion_mask |-> exclusion_mask,
                          spectral_model_tag |-> spectral_model_tag]
    /\ UNCHANGED <<tpsf, edep, psf3d, hdul, mem, dataset>>

\* The dataset the maker of the run is given.
NewDataset ==
    /\ maker # NONE
    /\ dataset = NONE
    /\ \E counts \in CountsMaps : \E background \in BackgroundMaps :
       \E mask_safe \in SafeMasks : \E mask_fit \in FitMasks : \E models \in ModelLists :
          /\ dataset' = [cls |-> "MapDataset", name |-> "ds", counts |-> counts,
                         background |-> background, mask_safe |-> mask_safe,
                         mask_fit |-> mask_fit, models |-> models]
          /\ call' = [op |-> "MapDataset", pure |-> FALSE, err |-> ""]
    /\ UNCHANGED <<tpsf, edep, psf3d, hdul, mem, maker>>

\* maker.run(dataset): the dataset is changed in place and returned.
Run ==
    /\ maker # NONE
    /\ dataset # NONE
    /\ \E fit \in IF maker.method = "fit" THEN FitOutcomes ELSE {NONE} :
          LET r == FoVBackgroundMaker_run(maker, dataset, fit)
          IN  /\ dataset' = r.dataset
              /\ call' = [op |-> "FoVBackgroundMaker.run", pure |-> FALSE, err |-> "",
                          warnings |-> r.warnings, before |-> dataset,
                          during |-> r.during, fit |-> fit, ret |-> r.dataset]
    /\ UNCHANGED <<tpsf, edep, psf3d, hdul, mem, maker>>

\* maker.make_default_fov_background_model(dataset), called by the user: the
\* dataset is changed in place and returned.  On a dataset that has a model of
\* the same name already, the list of models either takes the second one or
\* refuses it with a value error.
MakeDefaultFoVBackgroundModel ==
    /\ maker # NONE
    /\ dataset # NONE
    /\ dataset.models # NONE => Len(dataset.models.list) < MaxModels
    /\ \E refused \in IF background_model(dataset) = NONE THEN {FALSE} ELSE BOOLEAN :
          /\ dataset' = IF refused THEN dataset
                        ELSE make_default_fov_background_model(maker, dataset)
          /\ call' = [op |-> "FoVBackgroundMaker.make_default_fov_background_model",
                      pure |-> FALSE, err |-> IF refused THEN "ValueError" ELSE "",
                      before |-> dataset]
    /\ UNCHANGED <<tpsf, edep, psf3d, hdul, mem, maker>>

\* ------------------------------------------------------ specifications
NextFits == NewEnergyDependentTablePSF \/ ToHDUList \/ FromHDUList

SpecFits == Init /\ [][NextFits]_vars

NextBand == NewEnergyDependentTablePSF \/ TablePsfInEnergyRange

SpecBand == Init /\ [][NextBand]_vars

NextTable == NewTablePSF \/ Containment \/ ContainmentRadius \/ Normalize

SpecTable == Init /\ [][NextTable]_vars

NextContainment ==
    NewTablePSF \/ Normalize \/ Containment \/ NewEnergyDependentTablePSF \/ EDepContainment

SpecContainment == Init /\ [][NextContainment]_vars

NextFits3D == NewPSF3D \/ EnergyThresh \/ PSF3DToHDUList \/ PSF3DFromTable

SpecFits3D == Init /\ [][NextFits3D]_vars

Next3D == NewPSF3D \/ ToEnergyDependentTablePSF \/ ToTablePSF \/ PSF3DContainmentRadius

Spec3D == Init /\ [][Next3D]_vars

\* Every way an EnergyDependentTablePSF comes to exist: constructed, read from
\* a file, derived from a PSF3D.
NextEDep ==
    \/ NewEnergyDependentTablePSFAnyExposure
    \/ ToHDUList
    \/ FromHDUList
    \/ NewPSF3D
    \/ ToEnergyDependentTablePSF

SpecEDep == Init /\ [][NextEDep]_vars

NextOwned ==
    \/ NewPSF3D
    \/ ToEnergyDependentTablePSF
    \/ ToTablePSF
    \/ TablePsfAtEnergy
    \/ TablePsfInEnergyRange
    \/ NewTablePSFFromRow
    \/ Normalize

SpecOwned == Init /\ [][NextOwned]_vars

NextMeta ==
    \/ NewPSF3D
    \/ EnergyThresh
    \/ PSF3DToHDUList
    \/ RemoveKeyword
    \/ PSF3DFromTable

SpecMeta == Init /\ [][NextMeta]_vars

NextTags == FromShape \/ NewFoVBackgroundMaker

SpecTags == Init /\ [][NextTags]_vars

NextFoV ==
    \/ NewFoVBackgroundMaker
    \/ NewDataset
    \/ MakeDefaultFoVBackgroundModel
    \/ Run

SpecFoV == Init /\ [][NextFoV]_vars

\* ------------------------------------------------------------- claims
\* The containment on the grid the claims speak of: 10 * nbin equally spaced
\* radii (deg) from 0 to the last center of the rad axis.
GridRadius(psf, k) ==
    LET rad_axis == axis_of(psf, "rad")
    IN  RMul(AngleTo(rad_axis.center[nbin(rad_axis)], rad_axis.unit, "deg"),
             Rat(k - 1, 10 * nbin(rad_axis) - 1))

GridSize(psf) == 10 * nbin(axis_of(psf, "rad"))

GridContainment(psf, k) ==
    LET rad_axis == axis_of(psf, "rad")
    IN  IntegrateProfile(rad_axis, Seq1(psf.data),
                         AngleTo(GridRadius(psf, k), "deg", rad_axis.unit))

\* C1: TablePSF.containment_radius returns one radius per requested fraction,
\* in request order; each is the grid radius whose containment is nearest to
\* the fraction, the lowest index among equally near ones; fraction 0 gives
\* radius 0 and a fraction at or above the largest containment gives the
\* smallest radius that reaches it.
C1_NearestGridPoint ==
    call.op = "TablePSF.containment_radius" =>
        LET N == GridSize(tpsf)
            cont == Memo([k \in 1..N |-> GridContainment(tpsf, k)])
            grid == Memo([k \in 1..N |-> GridRadius(tpsf, k)])
        IN  /\ Len(call.ret) = Len(call.fraction)
            /\ \A m \in 1..Len(call.fraction) :
                 LET f == call.fraction[m]
                     diff == Memo([k \in 1..N |-> RAbs(RSub(cont[k], f))])
                 IN  /\ \E i \in 1..N :
                          /\ call.ret[m] = grid[i]
                          /\ \A j \in 1..N : ~RLt(diff[j], diff[i])
                          /\ \A j \in 1..(i - 1) : RLt(diff[i], diff[j])
                          /\ (\A j \in 1..N : RLe(cont[j], f)) =>
                                /\ \A j \in 1..N : RLe(cont[j], cont[i])
                                /\ \A j \in 1..(i - 1) : RLt(cont[j], cont[i])
                     /\ (f = R(0) => call.ret[m] = R(0))

\* A containment_radius call where several grid radii are equally near the
\* fraction (a plateau below the fraction) and an inner one is returned.
C1_Witness ==
    /\ call.op = "TablePSF.containment_radius"
    /\ Len(call.fraction) = 3
    /\ call.ret[1] # R(0)
    /\ call.ret[1] # GridRadius(tpsf, GridSize(tpsf))
    /\ \A k \in 1..GridSize(tpsf) : RLe(GridContainment(tpsf, k), call.fraction[1])
    /\ call.ret[2] = R(0)
    /\ call.ret[3] # call.ret[1]

\* Whether every value of the data array is finite and >= 0.
NonNegative(data) == \A ix \in DOMAIN data.at : RLe(R(0), data.at[ix])

\* Whether the containments of the last containment call do not decrease with
\* rad_max (for every requested energy, if the call has energies).
MonotoneCall ==
    IF call.op = "TablePSF.containment"
    THEN \A i, j \in 1..Len(call.rad_max) :
            RLe(call.rad_max[i], call.rad_max[j]) => RLe(call.ret[i], call.ret[j])
    ELSE \A e \in 1..Len(call.energy) : \A i, j \in 1..Len(call.rad_max) :
            RLe(call.rad_max[i], call.rad_max[j])
                => RLe(call.ret.at[<<e, i>>], call.ret.at[<<e, j>>])

IsContainmentCall ==
    call.op \in {"TablePSF.containment", "EnergyDependentTablePSF.containment"}

CallData == IF call.op = "TablePSF.containment" THEN tpsf.data ELSE edep.data

\* C5 as stated: for any PSF, containment(r1) <= containment(r2) when r1 <= r2.
C5_MonotoneAnyPSF == IsContainmentCall => MonotoneCall

\* C5 (amended): for a PSF whose data values are all finite and non-negative,
\* containment(r1) <= containment(r2) whenever r1 <= r2, at every energy.
C5_MonotoneNonNegative == (IsContainmentCall /\ NonNegative(CallData)) => MonotoneCall

\* A containment call on non-negative data that rises strictly, for each class.
C5_Witness ==
    /\ call.op = "EnergyDependentTablePSF.containment"
    /\ NonNegative(edep.data)
    /\ Len(call.energy) = 2
    /\ \E i, j \in 1..Len(call.rad_max) :
          /\ RLt(call.rad_max[i], call.rad_max[j])
          /\ RLt(call.ret.at[<<2, i>>], call.ret.at[<<2, j>>])

\* C6: after normalize() on a PSF with a finite non-zero integral, every value
\* is the old value divided by the old containment at the upper edge of the
\* rad axis, the containment at that edge is 1, and normalizing again changes
\* nothing.
C6_Normalize ==
    (call.op = "TablePSF.normalize" /\ IsFinite(call.integral) /\ call.integral # R(0)) =>
        LET rad_axis == axis_of(tpsf, "rad")
            edge == rad_axis.edges[nbin(rad_axis) + 1]
        IN  /\ tpsf.data.shape = call.before.shape
            /\ \A ix \in DOMAIN tpsf.data.at :
                  tpsf.data.at[ix] = RDiv(call.before.at[ix], call.integral)
            /\ call.integral = IntegrateProfile(rad_axis, Seq1(call.before), edge)
            /\ IntegrateProfile(rad_axis, Seq1(tpsf.data), edge) = R(1)
            /\ TablePSF_normalize(tpsf).data = tpsf.data

\* A normalize() call that changed the data (integral neither 0 nor 1).
C6_Witness ==
    /\ call.op = "TablePSF.normalize"
    /\ IsFinite(call.integral)
    /\ call.integral \notin {R(0), R(1)}
    /\ tpsf.data # call.before

\* Whether two axes have the same centers as quantities (compared in `unit`).
SameCenters(a, b, unit) ==
    /\ nbin(a) = nbin(b)
    /\ \A i \in 1..nbin(a) :
          CoordTo(a.center[i], a.name, a.unit, unit) = CoordTo(b.center[i], b.name, b.unit, unit)

\* C2: from_hdulist of what to_hdulist wrote gives a PSF with the rad centers,
\* energy centers, exposure and data of the original, the data in
\* (energy, rad) order.
C2_RoundTrip ==
    call.op = "EnergyDependentTablePSF.from_hdulist" =>
        /\ call.err = ""
        /\ SameCenters(axis_of(edep, "rad"), axis_of(call.orig, "rad"), "deg")
        /\ SameCenters(axis_of(edep, "energy_true"), axis_of(call.orig, "energy_true"), "MeV")
        /\ edep.exposure = call.orig.exposure
        /\ edep.data = call.orig.data
        /\ edep.data.shape = <<nbin(edep.axes[1]), nbin(edep.axes[2])>>
        /\ edep.axes[1].name = "energy_true"
        /\ edep.axes[2].name = "rad"

\* A PSF read back from a file written from a PSF with a TeV energy axis, an
\* edge-defined rad axis, more rad bins than energy bins and data that differ
\* along both axes.
C2_Witness ==
    /\ call.op = "EnergyDependentTablePSF.from_hdulist"
    /\ call.err = ""
    /\ call.orig # edep
    /\ axis_of(call.orig, "energy_true").unit = "TeV"
    /\ axis_of(call.orig, "rad").node_type = "edges"
    /\ edep.data.shape[1] < edep.data.shape[2]
    /\ edep.data.at[<<1, 1>>] # edep.data.at[<<1, 2>>]
    /\ edep.data.at[<<1, 1>>] # edep.data.at[<<2, 1>>]
    /\ edep.exposure[1] # edep.exposure[2]

IsBandCall == call.op = "EnergyDependentTablePSF.table_psf_in_energy_range"

\* C7 as stated: the weights of table_psf_in_energy_range always sum to 1.
C7_WeightsSumToOne == IsBandCall => RSum(call.weights) = R(1)

\* C7 (amended): the weights sum to 1 whenever the weights before
\* normalization, spectrum(e) * exposure(e), have a finite non-zero sum.
C7_WeightsSumToOneNonZero ==
    (IsBandCall /\ IsFinite(RSum(call.raw)) /\ RSum(call.raw) # R(0))
        => RSum(call.weights) = R(1)

\* A band call whose weights had to be rescaled and differ from each other.
C7_Witness ==
    /\ IsBandCall
    /\ IsFinite(RSum(call.raw))
    /\ RSum(call.raw) \notin {R(0), R(1)}
    /\ \E i, j \in 1..Len(call.weights) : call.weights[i] # call.weights[j]
    /\ call.n_bins = DefaultNBins

\* C8 as stated: the band is sampled at exactly n_bins log-spaced energies from
\* e_min to e_max, each weighted by spectrum(e) * exposure(e) before
\* normalization.
C8_NBinsEnergies ==
    IsBandCall =>
        /\ Len(call.energy) = call.n_bins
        /\ call.energy[1] = call.energy_range[1]
        /\ call.energy[Len(call.energy)] = call.energy_range[2]
        /\ \A k \in 1..(Len(call.energy) - 1) :
              RSub(call.energy[k + 1], call.energy[k])
                  = RSub(call.energy[2], call.energy[1])
        /\ \A k \in 1..Len(call.energy) :
              call.raw[k] = RMul(SpectralModel(IF call.spectrum = NONE
                                               THEN [tag |-> "pl2"] ELSE call.spectrum,
                                               call.energy[k], "GeV"),
                                 ExposureModel(edep, call.energy[k], "GeV"))

\* What the code does: the n_bins + 1 edges of n_bins log-spaced bins.
C8_NBinsPlusOneEnergies ==
    IsBandCall =>
        /\ Len(call.energy) = call.n_bins + 1
        /\ call.energy[1] = call.energy_range[1]
        /\ call.energy[Len(call.energy)] = call.energy_range[2]

\* C3: for a PSF3D whose meta holds LO_THRES and HI_THRES, from_table of the
\* table to_hdulist wrote gives the original back: RPSF is stored in
\* (rad, offset, energy) order, the data read are in (energy, offset, rad)
\* order and equal to the original element by element, the three axes are
\* unchanged and the energy thresholds have the original values.
C3_RoundTrip3D ==
    call.op = "PSF3D.from_table" =>
        LET table == hdul.PSF_2D_TABLE
            orig == call.orig
            n == [d \in 1..3 |-> nbin(orig.axes[d])]
        IN  /\ call.err = ""
            /\ table.RPSF.shape = <<1, n[3], n[2], n[1]>>
            /\ \A ix \in Indices(orig.data.shape) :
                  table.RPSF.at[<<1, ix[3], ix[2], ix[1]>>] = orig.data.at[ix]
            /\ psf3d.data.shape = <<n[1], n[2], n[3]>>
            /\ \A ix \in Indices(orig.data.shape) : psf3d.data.at[ix] = orig.data.at[ix]
            /\ psf3d.axes = orig.axes
            /\ PSF3D_energy_thresh_lo(psf3d).err = ""
            /\ PSF3D_energy_thresh_lo(psf3d) = PSF3D_energy_thresh_lo(orig)
            /\ PSF3D_energy_thresh_hi(psf3d).err = ""
            /\ PSF3D_energy_thresh_hi(psf3d) = PSF3D_energy_thresh_hi(orig)

\* A PSF3D read back whose original has fewer energy bins than rad bins, data
\* that differ along the energy axis and not along the rad axis, and a meta
\* key that is not written.
C3_Witness ==
    /\ call.op = "PSF3D.from_table"
    /\ call.err = ""
    /\ call.orig.data.shape = <<2, 2, 3>>
    /\ call.orig.data.at[<<1, 1, 1>>] # call.orig.data.at[<<2, 1, 1>>]
    /\ call.orig.data.at[<<1, 1, 1>>] = call.orig.data.at[<<1, 1, 2>>]
    /\ "TELESCOP" \in DOMAIN call.orig.meta
    /\ "TELESCOP" \notin DOMAIN psf3d.meta

\* C4 as stated: a PSF3D constructor call with data whose axis order is
\* transposed, or whose shape differs from (energy nbin, offset nbin, rad nbin),
\* fails with a shape-mismatch error and creates no PSF3D.
C4_TransposedRejected ==
    (/\ call.op = "PSF3D"
     /\ \/ call.data = transpose(call.intended) /\ call.data # call.intended
        \/ call.data.shape # call.nbins)
        => (call.err = "ValueError" /\ psf3d = NONE)

\* C4 (amended): a PSF3D constructor call with data whose shape differs from
\* (energy nbin, offset nbin, rad nbin) in that order fails with a
\* shape-mismatch error and creates no PSF3D.
C4_ShapeMismatchRejected ==
    (call.op = "PSF3D" /\ call.data.shape # call.nbins)
        => (call.err = "ValueError" /\ psf3d = NONE)

\* A transposed array of three dimensions, each longer than 1, rejected.
C4_Witness ==
    /\ call.op = "PSF3D"
    /\ call.data = transpose(call.intended)
    /\ call.data.shape # call.nbins
    /\ \A d \in 1..3 : call.data.shape[d] > 1
    /\ call.err = "ValueError"
    /\ psf3d = NONE

IsDerivationCall == call.op = "PSF3D.to_energy_dependent_table_psf"

\* The rad axis the derivation is to use: from the given edges, or that of the
\* PSF3D.
DerivedRadAxis ==
    IF call.rad = NONE THEN axis_of(psf3d, "rad")
    ELSE MapAxis_from_edges(call.rad.value, "rad", call.rad.unit, "lin")

\* The PSF3D value at one energy (in the unit of the energy axis), one offset
\* and one radius (in the unit of the given rad axis).
ValueAt(psf, energy, theta, rad_axis, rad) ==
    PSF3D_evaluate(psf, [value |-> <<energy>>, unit |-> psf.axes[1].unit],
                   [value |-> <<theta.value>>, unit |-> theta.unit],
                   [value |-> <<rad>>, unit |-> rad_axis.unit]).at[<<1, 1, 1>>]

\* The derived PSF is the (energy, rad) slice of the PSF3D at the offset.
SliceAtOffset ==
    LET energy_axis == axis_of(psf3d, "energy_true")
    IN  /\ call.err = ""
        /\ edep # NONE
        /\ axis_of(edep, "energy_true") = energy_axis
        /\ axis_of(edep, "rad") = DerivedRadAxis
        /\ edep.data.shape = <<nbin(energy_axis), nbin(DerivedRadAxis)>>
        /\ \A i \in 1..nbin(energy_axis) : \A j \in 1..nbin(DerivedRadAxis) :
              edep.data.at[<<i, j>>]
                  = ValueAt(psf3d, energy_axis.center[i], call.theta,
                            DerivedRadAxis, DerivedRadAxis.center[j])

\* C9 as stated: for every PSF3D and offset, to_energy_dependent_table_psf
\* gives a PSF over the same energy axis with data of shape
\* (energy nbin, rad nbin) and entry [i, j] the PSF3D value at (energy center i,
\* theta, rad center j), also for a single-bin energy or rad axis; a given rad
\* gives the rad axis built from these edges.
C9_SliceAtOffset == IsDerivationCall => SliceAtOffset

\* What the code does: the slice when the energy axis and the rad axis used
\* have two bins or more each; otherwise ValueError and no derived PSF.
C9_SliceUnlessSingleBin ==
    IsDerivationCall =>
        IF nbin(axis_of(psf3d, "energy_true")) >= 2 /\ nbin(DerivedRadAxis) >= 2
        THEN SliceAtOffset
        ELSE call.err = "ValueError" /\ edep = NONE

\* A derivation from a PSF3D with one energy bin and several rad bins: it
\* raises and gives no PSF.
C9_SingleBinRaises ==
    /\ IsDerivationCall
    /\ nbin(axis_of(psf3d, "energy_true")) = 1
    /\ nbin(DerivedRadAxis) >= 2
    /\ call.theta = [value |-> R(0), unit |-> "deg"]
    /\ call.rad = NONE
    /\ call.err = "ValueError"
    /\ edep = NONE

\* A slice at an offset between two offset centers, on given rad edges.
C9_MultiBinWitness ==
    /\ IsDerivationCall
    /\ call.err = ""
    /\ call.rad # NONE
    /\ call.theta.unit = "arcmin"
    /\ nbin(axis_of(psf3d, "offset")) = 2
    /\ edep.data.shape = <<2, 2>>
    /\ edep.data.at[<<1, 2>>] # edep.data.at[<<2, 1>>]
    /\ \E i, j \in 1..2 : edep.data.at[<<i, j>>] \notin {psf3d.data.at[ix] : ix \in Indices(psf3d.data.shape)}

\* The shape and the index that squeeze() leaves of an (n_e, n_t) array.
SqueezedShape(n_e, n_t) ==
    (IF n_e = 1 THEN <<>> ELSE <<n_e>>) \o (IF n_t = 1 THEN <<>> ELSE <<n_t>>)

SqueezedIndex(n_e, n_t, i, t) ==
    (IF n_e = 1 THEN <<>> ELSE <<i>>) \o (IF n_t = 1 THEN <<>> ELSE <<t>>)

\* C10: PSF3D.containment_radius agrees with the derivation offset by offset:
\* the radius at (energy i, offset t) is the containment radius, at that one
\* energy, of the PSF derived at that offset; the result is indexed by energy
\* first and offset second, a scalar for one energy and one offset, a vector of
\* length n in request order for n energies and one offset.  Where a derivation
\* fails the call fails.
C10_AgreesWithDerivation ==
    call.op = "PSF3D.containment_radius" =>
        LET n_e == Len(call.energy.value)
            n_t == Len(call.theta.value)
            derived == Memo([t \in 1..n_t |->
                          PSF3D_to_energy_dependent_table_psf(
                              psf3d, [value |-> call.theta.value[t],
                                      unit |-> call.theta.unit], NONE, NONE)])
            expected(i, t) ==
                EnergyDependentTablePSF_containment_radius(
                    derived[t].val, <<call.energy.value[i]>>, call.energy.unit,
                    call.fraction)[1]
        IN  IF \E t \in 1..n_t : derived[t].err # ""
            THEN call.err # ""
            ELSE /\ call.err = ""
                 /\ call.ret.shape = SqueezedShape(n_e, n_t)
                 /\ \A i \in 1..n_e : \A t \in 1..n_t :
                       call.ret.at[SqueezedIndex(n_e, n_t, i, t)] = expected(i, t)

\* Radii for three energies and two offsets that differ along both axes, the
\* three energies giving three different radii.
C10_Witness ==
    /\ call.op = "PSF3D.containment_radius"
    /\ call.err = ""
    /\ call.ret.shape = <<3, 2>>
    /\ call.ret.at[<<1, 1>>] # call.ret.at[<<2, 1>>]
    /\ call.ret.at[<<1, 1>>] # call.ret.at[<<1, 2>>]
    /\ call.ret.at[<<3, 1>>] \notin {call.ret.at[<<1, 1>>], call.ret.at[<<2, 1>>]}

\* A band call with the default n_bins: DefaultNBins + 1 energies are sampled.
C8_DefaultSamplesTwelve ==
    /\ IsBandCall
    /\ call.n_bins = DefaultNBins
    /\ Len(call.energy) = DefaultNBins + 1
    /\ call.err = ""

\* Whether the axes of the EnergyDependentTablePSF are energy_true and rad, in
\* that order.
AxesNamed ==
    /\ Len(edep.axes) = 2
    /\ edep.axes[1].name = "energy_true"
    /\ edep.axes[2].name = "rad"

IsEDepConstructorCall == call.op = "EnergyDependentTablePSF" /\ "exposure" \in DOMAIN call

\* Whether a PSF constructed without exposure has an exposure of ones (cm2 s).
DefaultExposureOnes ==
    (IsEDepConstructorCall /\ call.exposure = NONE)
        => edep.exposure = [i \in 1..nbin(edep.axes[1]) |-> R(1)]

\* C11 as stated: every EnergyDependentTablePSF has the axes energy_true and rad
\* in that order and an exposure of length energy_true.nbin; without an
\* exposure argument the exposure is a vector of ones of that length.
C11_EDepInvariant ==
    edep # NONE =>
        /\ AxesNamed
        /\ Len(edep.exposure) = nbin(edep.axes[1])
        /\ DefaultExposureOnes

\* What the code keeps: the axis names and the default exposure; a given
\* exposure is taken with whatever length it has.
C11_NamesAndDefault ==
    edep # NONE =>
        /\ AxesNamed
        /\ DefaultExposureOnes
        /\ (IsEDepConstructorCall /\ call.exposure # NONE)
              => Len(edep.exposure) = Len(call.exposure.value)

\* A PSF constructed with an exposure longer than its energy axis.
C11_ExposureLengthMismatch ==
    /\ IsEDepConstructorCall
    /\ call.err = ""
    /\ edep # NONE
    /\ call.exposure # NONE
    /\ Len(edep.exposure) > nbin(edep.axes[1])


\* C12: a normalize() call on a TablePSF changes the data of no other PSF
\* object: the EnergyDependentTablePSF and the PSF3D of the run, whichever of
\* them the TablePSF was derived from, are after the call what they were
\* before it, however many times normalize() is called.
C12_NormalizeLeavesOthers ==
    [][(call'.op = "TablePSF.normalize") => (edep' = edep /\ psf3d' = psf3d)]_vars

\* No two PSF objects hold their data in the same buffer.
C12_NoSharedBuffer ==
    \A a, b \in DOMAIN mem : (a # b /\ mem[a] # NoBuffer) => mem[a].buf # mem[b].buf

\* normalize() changed the data of a TablePSF derived from an
\* EnergyDependentTablePSF that was itself derived from a PSF3D, and the three
\* objects share the rad axis.
C12_Witness ==
    /\ call.op = "TablePSF.normalize"
    /\ IsFinite(call.integral)
    /\ tpsf.data # call.before
    /\ edep # NONE
    /\ psf3d # NONE
    /\ \E ix \in DOMAIN edep.data.at : edep.data.at[ix] # R(0)
    /\ axis_of(tpsf, "rad") = axis_of(edep, "rad")
    /\ axis_of(edep, "rad") = axis_of(psf3d, "rad")

\* What a PSF3D holds of the thresholds decides each access on its own.
ThreshAccess(psf, key, ret) ==
    IF key \in DOMAIN psf.meta
    THEN ret = Ok(psf.meta[key])
    ELSE ret = Raise("KeyError")

\* C13: the thresholds are looked up only when they are accessed.  No
\* constructor call and no from_table call fails with a key error, whatever
\* the meta holds; energy_thresh_lo / energy_thresh_hi give the value of
\* LO_THRES / HI_THRES when the key is there and raise a key error when it is
\* not, each on its own; and the access leaves the PSF3D as it was.
C13_LazyThresholds ==
    /\ [](/\ (call.op \in {"PSF3D", "PSF3D.from_table"}) => call.err # "KeyError"
          /\ (call.op \in {"PSF3D", "PSF3D.from_table"} /\ call.err = "")
                => psf3d.cls = "PSF3D"
          /\ (call.op = "PSF3D.energy_thresh") =>
                /\ ThreshAccess(psf3d, "LO_THRES", call.lo)
                /\ ThreshAccess(psf3d, "HI_THRES", call.hi))
    /\ [][(call'.op = "PSF3D.energy_thresh") => (psf3d' = psf3d)]_vars

\* A PSF3D loaded from a table without HI_THRES was asked for both thresholds:
\* the lower one was given, the upper one raised the key error.
C13_Witness ==
    /\ call.op = "PSF3D.energy_thresh"
    /\ psf3d.cls = "PSF3D"
    /\ DOMAIN psf3d.meta = {"LO_THRES"}
    /\ call.lo = Ok(Rat(1, 10))
    /\ call.hi = Raise("KeyError")

\* A PSF3D constructed without meta, and one loaded from a table without any
\* threshold.
C13_ConstructedWithout ==
    /\ call.op = "PSF3D"
    /\ call.err = ""
    /\ DOMAIN psf3d.meta = {}

C13_LoadedWithout ==
    /\ call.op = "PSF3D.from_table"
    /\ call.err = ""
    /\ DOMAIN psf3d.meta = {}


\* C14: a tag that is not valid is rejected when the call is made and never
\* replaced by a default.  from_shape raises a value error and gives no
\* TablePSF for every shape other than "disk" and "gauss", and gives one for
\* these two; the FoVBackgroundMaker constructor raises a value error and gives
\* no maker for every method other than "fit" and "scale" and for every
\* spectral model tag without "norm" in it, and otherwise gives the maker with
\* the method and the tag of the call.
C14_InvalidTagRejected ==
    /\ (call.op = "TablePSF.from_shape") =>
          IF call.shape \in {"disk", "gauss"}
          THEN call.err = "" /\ tpsf.cls = "TablePSF"
          ELSE call.err = "ValueError" /\ tpsf = NONE
    /\ (call.op = "FoVBackgroundMaker") =>
          IF call.method \in {"fit", "scale"} /\ call.spectral_model_tag \in TagsWithNorm
          THEN /\ call.err = ""
               /\ maker.cls = "FoVBackgroundMaker"
               /\ maker.method = call.method
               /\ maker.spectral_model_tag = call.spectral_model_tag
               /\ maker.exclusion_mask = call.exclusion_mask
          ELSE call.err = "ValueError" /\ maker = NONE

\* from_shape was called with a shape that is not valid and gave nothing, and
\* the maker constructor was then called with a method that is not valid and a
\* tag that is, and gave nothing.
C14_Witness ==
    /\ call.op = "FoVBackgroundMaker"
    /\ call.method = "Fit"
    /\ call.spectral_model_tag = "pl-norm"
    /\ call.err = "ValueError"
    /\ maker = NONE
    /\ tpsf = NONE

\* The maker constructor was called with a tag that has the letters of "norm"
\* but not the word, and gave nothing; from_shape gave a disk before.
C14_TagWitness ==
    /\ call.op = "FoVBackgroundMaker"
    /\ call.method = "scale"
    /\ call.spectral_model_tag = "nor-m"
    /\ call.err = "ValueError"
    /\ tpsf.cls = "TablePSF"
    /\ tpsf.data.at[<<1>>].fn = "disk amplitude"



\* The last call was maker.run(dataset), with the given method.
IsRun(method) == call.op = "FoVBackgroundMaker.run" /\ maker.method = method

\* The norm of the background model of a dataset.
NormOf(ds) == Parameters(background_model(ds))[1].value

\* The norm before the run: that of the background model the dataset had, or
\* that of the default model.
PriorNorm ==
    IF background_model(call.before) = NONE THEN R(1) ELSE NormOf(call.before)

\* Whether pixel i lies inside the safe mask and outside the exclusion mask of
\* the maker (inside the fit mask of the dataset when the maker has none).
Selected(i) ==
    /\ call.before.mask_safe # NONE => call.before.mask_safe.data[i]
    /\ IF maker.exclusion_mask # NONE
       THEN interp_to_geom(maker.exclusion_mask, NPix).data[i]
       ELSE call.before.mask_fit # NONE => call.before.mask_fit.data[i]

\* The masked totals of the counts and of the background template.
CountTot == RSum([i \in 1..NPix |-> IF Selected(i) THEN call.before.counts[i] ELSE R(0)])

TemplateTot ==
    RSum([i \in 1..NPix |-> IF Selected(i) THEN call.before.background[i] ELSE R(0)])

\* The masked total of the background predicted with a norm.
BkgTot(norm) == RMul(norm, TemplateTot)

\* C15: a run with method "scale" on a dataset whose masked counts total or
\* masked predicted background total is not positive logs one warning, leaves
\* the norm of the background model at its value, raises nothing and returns
\* the dataset.
C15_ScaleSkipped ==
    (IsRun("scale") /\ (RLe(CountTot, R(0)) \/ RLe(BkgTot(PriorNorm), R(0)))) =>
        /\ Len(call.warnings) = 1
        /\ NormOf(dataset) = PriorNorm
        /\ call.err = ""
        /\ call.ret = dataset
        /\ dataset.counts = call.before.counts
        /\ dataset.background = call.before.background

\* A scale run on a dataset with counts outside the exclusion mask and a
\* background total that is not positive there, and one on a dataset with no
\* counts there.
C15_Witness ==
    /\ IsRun("scale")
    /\ maker.exclusion_mask # NONE
    /\ RLt(R(0), CountTot)
    /\ RLe(BkgTot(PriorNorm), R(0))
    /\ call.warnings = <<"No positive background found outside exclusion mask">>

C15_NoCountsWitness ==
    /\ IsRun("scale")
    /\ CountTot = R(0)
    /\ RLt(R(0), BkgTot(PriorNorm))
    /\ call.warnings = <<"No counts found outside exclusion mask">>


\* The models of the dataset when the fit or the scaling starts: those the
\* dataset had, and the default background model if it had none of its own.
ModelsBefore == make_default_fov_background_model(maker, call.before).models.list

ModelsAtStart ==
    IF background_model(call.before) = NONE THEN ModelsBefore
    ELSE call.before.models.list

\* Model m is the background model of the dataset: the one
\* dataset.background_model gives.
IsBackgroundModel(m) ==
    m = ModelIndex([call.before EXCEPT !.models = Models(ModelsAtStart)], "ds-bkg")

\* Parameter k of model m is a free parameter of the background model.
FreeBackgroundParameter(m, k) ==
    /\ IsBackgroundModel(m)
    /\ ~Parameters(ModelsAtStart[m])[k].frozen

\* A fit run that did not converge.
FitFailed == IsRun("fit") /\ ~call.fit.success

\* C16 as stated: after a fit that did not converge one warning is logged,
\* every parameter is what it was before the fit, nothing is raised and the
\* dataset is returned.
C16_ParametersRestored ==
    FitFailed =>
        /\ call.warnings = <<"Fit did not converge">>
        /\ call.err = ""
        /\ call.ret = dataset
        /\ dataset.models.list = ModelsAtStart

\* C16, amended: after a fit that did not converge one warning is logged, the
\* frozen flag of every parameter is what it was before the fit, nothing is
\* raised and the dataset is returned; the frozen parameters and those of the
\* other models keep their values, and the free parameters of the background
\* model keep the values the optimizer left on them.
C16_FlagsRestored ==
    FitFailed =>
        /\ call.warnings = <<"Fit did not converge">>
        /\ call.err = ""
        /\ call.ret = dataset
        /\ Len(dataset.models.list) = Len(ModelsAtStart)
        /\ \A m \in 1..Len(ModelsAtStart) :
              /\ dataset.models.list[m].name = ModelsAtStart[m].name
              /\ \A k \in 1..Len(Parameters(ModelsAtStart[m])) :
                    LET par == Parameters(dataset.models.list[m])[k]
                        was == Parameters(ModelsAtStart[m])[k]
                    IN  /\ par.frozen = was.frozen
                        /\ par.value = IF FreeBackgroundParameter(m, k)
                                       THEN call.fit.value ELSE was.value

\* A fit that did not converge left a norm on the background model that is not
\* the norm it had, next to a sky model with a free parameter.
C16_Witness ==
    /\ FitFailed
    /\ NormOf(dataset) # PriorNorm
    /\ \E m \in 1..Len(ModelsAtStart) :
          /\ ModelsAtStart[m].cls = "SkyModel"
          /\ \E k \in 1..Len(Parameters(ModelsAtStart[m])) :
                ~Parameters(ModelsAtStart[m])[k].frozen


\* A scale run on a dataset whose masked totals of counts and of predicted
\* background were both positive.
ScaleApplied ==
    /\ IsRun("scale")
    /\ RLt(R(0), CountTot)
    /\ RLt(R(0), BkgTot(PriorNorm))

\* C17: after a scale run with both masked totals positive the masked total of
\* the predicted background equals the masked total of the counts, whatever the
\* norm was before; and a run on a dataset whose totals already agree (as
\* after a first run) leaves the norm at its value.
C17_ScaleMatchesCounts ==
    ScaleApplied =>
        /\ BkgTot(NormOf(dataset)) = CountTot
        /\ (BkgTot(PriorNorm) = CountTot) => NormOf(dataset) = PriorNorm

\* What the code does: the new norm is the counts total over the background
\* total predicted with the norm before, so the totals agree after a run that
\* started from a norm of 1.
C17_NormIsRatio ==
    ScaleApplied =>
        /\ NormOf(dataset) = RDiv(CountTot, BkgTot(PriorNorm))
        /\ (PriorNorm = R(1)) => BkgTot(NormOf(dataset)) = CountTot

\* A second scale run: the totals agreed before it, the counts total is not
\* the template total, and the run took the norm back to 1, so that the totals
\* no longer agree.
C17_SecondRunUndoes ==
    /\ ScaleApplied
    /\ call.before.models # NONE
    /\ BkgTot(PriorNorm) = CountTot
    /\ CountTot # TemplateTot
    /\ NormOf(dataset) = R(1)
    /\ BkgTot(NormOf(dataset)) # CountTot

\* A first scale run from a norm of 2: the predicted total is half the counts
\* total.
C17_PriorNormTwo ==
    /\ ScaleApplied
    /\ PriorNorm = R(2)
    /\ BkgTot(NormOf(dataset)) = RMul(Rat(1, 2), CountTot)


\* C18: a run leaves dataset.mask_fit what it was, for either method and with
\* or without an exclusion mask; while the background is scaled or fitted
\* mask_fit is the exclusion mask on the geometry of the counts if the maker
\* has one, and the dataset's own otherwise.
C18_MaskFitRestored ==
    (call.op = "FoVBackgroundMaker.run") =>
        /\ dataset.mask_fit = call.before.mask_fit
        /\ call.during.mask_fit =
              IF maker.exclusion_mask # NONE
              THEN [data |-> [i \in 1..NPix |->
                                 maker.exclusion_mask.data[
                                     IF Len(maker.exclusion_mask.data) = NPix
                                     THEN i ELSE 2 * i - 1]]]
              ELSE call.before.mask_fit

\* A fit run of a maker with an exclusion mask on a finer geometry, on a
\* dataset with a fit mask of its own: the fit saw the exclusion mask, and the
\* dataset has its own mask again.
C18_Witness ==
    /\ IsRun("fit")
    /\ maker.exclusion_mask # NONE
    /\ Len(maker.exclusion_mask.data) = 2 * NPix
    /\ call.before.mask_fit # NONE
    /\ call.during.mask_fit # call.before.mask_fit
    /\ dataset.mask_fit = call.before.mask_fit

\* C19: while the fit of _fit_bkg runs every parameter of the dataset that is
\* not one of the background model is frozen and every parameter of the
\* background model has its own frozen flag; after the run, converged or not,
\* every parameter has the frozen flag it had before.
C19_FrozenDuringFit ==
    IsRun("fit") =>
        /\ Len(call.during.models.list) = Len(ModelsAtStart)
        /\ Len(dataset.models.list) = Len(ModelsAtStart)
        /\ \A m \in 1..Len(ModelsAtStart) :
           \A k \in 1..Len(Parameters(ModelsAtStart[m])) :
              LET was == Parameters(ModelsAtStart[m])[k]
                  during == Parameters(call.during.models.list[m])[k]
                  after == Parameters(dataset.models.list[m])[k]
              IN  /\ during.frozen = IF IsBackgroundModel(m)
                                     THEN was.frozen ELSE TRUE
                  /\ after.frozen = was.frozen

\* A fit that converged on a dataset with a sky model that has a free
\* parameter, frozen while the fit ran and free again after it, and a
\* background model with a free norm.
C19_Witness ==
    /\ IsRun("fit")
    /\ call.fit.success
    /\ \E m \in 1..Len(ModelsAtStart) :
          /\ ModelsAtStart[m].cls = "SkyModel"
          /\ ~Parameters(ModelsAtStart[m])[1].frozen
          /\ Parameters(call.during.models.list[m])[1].frozen
          /\ ~Parameters(dataset.models.list[m])[1].frozen
    /\ \E m \in 1..Len(ModelsAtStart) : FreeBackgroundParameter(m, 1)

\* The background models in a list of models.
BackgroundModels(list) == {m \in 1..Len(list) : list[m].cls = "FoVBackgroundModel"}

\* C20: after a run the dataset has exactly one FoV background model, for
\* every dataset whose models have names of their own (a dataset that a direct
\* call of make_default_fov_background_model gave a second model of the same
\* name keeps the two).  When the dataset had none, the models are those it
\* had followed by a default model with a norm spectral model of the maker's
\* tag; when it had one, no model is added and the background model keeps its
\* spectral model tag; in both cases every other model the dataset had is in
\* dataset.models as it was.
C20_OneBackgroundModel ==
    (call.op = "FoVBackgroundMaker.run") =>
        LET had == IF call.before.models = NONE THEN <<>> ELSE call.before.models.list
            has == dataset.models.list
        IN  /\ Cardinality(BackgroundModels(had)) <= 1 =>
                  Cardinality(BackgroundModels(has)) = 1
            /\ Cardinality(BackgroundModels(has)) =
                  (IF BackgroundModels(had) = {} THEN 1
                   ELSE Cardinality(BackgroundModels(had)))
            /\ Len(has) = Len(had) + (IF BackgroundModels(had) = {} THEN 1 ELSE 0)
            /\ \A m \in 1..Len(had) :
                  IF had[m].cls = "FoVBackgroundModel"
                  THEN /\ has[m].name = had[m].name
                       /\ has[m].spectral_model.tag = had[m].spectral_model.tag
                  ELSE has[m] = had[m]
            /\ BackgroundModels(had) = {} =>
                  /\ has[Len(has)].name = "ds-bkg"
                  /\ has[Len(has)].spectral_model.tag = maker.spectral_model_tag

\* A second run on a dataset that had a sky model and no background model
\* before the first: the first run added the default model, the second added
\* nothing.
C20_Witness ==
    /\ call.op = "FoVBackgroundMaker.run"
    /\ call.before.models # NONE
    /\ Len(call.before.models.list) = 2
    /\ call.before.models.list[1].cls = "SkyModel"
    /\ call.before.models.list[2].spectral_model.tag = "norm-pl"
    /\ Len(dataset.models.list) = 2

\* A run on a dataset whose background model has another tag than the maker's:
\* the model is kept.
C20_KeptWitness ==
    /\ call.op = "FoVBackgroundMaker.run"
    /\ maker.spectral_model_tag = "norm-pl"
    /\ background_model(call.before) # NONE
    /\ background_model(dataset).spectral_model.tag = "pl-norm"


\* A direct call of make_default_fov_background_model adds one model after
\* those the dataset had, or is refused and leaves the dataset as it was; a
\* run after it adds no model, so a dataset given a second background model
\* by a direct call keeps both.
C20_DirectCall ==
    /\ (call.op = "FoVBackgroundMaker.make_default_fov_background_model") =>
          LET had == IF call.before.models = NONE THEN <<>> ELSE call.before.models.list
          IN  IF call.err = "" THEN /\ Len(dataset.models.list) = Len(had) + 1
                                    /\ SubSeq(dataset.models.list, 1, Len(had)) = had
                                    /\ dataset.models.list[Len(had) + 1].name = "ds-bkg"
              ELSE dataset = call.before
    /\ (call.op = "FoVBackgroundMaker.run" /\ background_model(call.before) # NONE) =>
          Len(dataset.models.list) = Len(call.before.models.list)

\* A run on a dataset that a direct call gave a second background model.
C20_DirectCallTwice ==
    /\ call.op = "FoVBackgroundMaker.run"
    /\ call.before.models # NONE
    /\ Cardinality(BackgroundModels(call.before.models.list)) = 2
    /\ Cardinality(BackgroundModels(dataset.models.list)) = 2


====
